---- MODULE Spec2Model ----
(***************************************************************************)
(* Model of the log benchmark server: the logs table (sqlc/queries.sql),   *)
(* the bulk loader Handler.InitializeData and the filtered query handlers  *)
(* Handler.GetLogs / Handler.SearchLogsPartial (handlers package).         *)
(*                                                                         *)
(* The table is a sequence of row groups: a group stands for n rows that   *)
(* agree on every column but id (ids id .. id+n-1).  A single-row insert   *)
(* makes a group with n = 1, a bulk-copy batch makes groups whose n sum to *)
(* the batch size.                                                         *)
(***************************************************************************)
EXTENDS Integers, Sequences, FiniteSets, TLC

VARIABLES table, nextId, nextUuid, ld, rq, walk, calc, sd, bm

vars == <<table, nextId, nextUuid, ld, rq, walk, calc, sd, bm>>

---------------------------------------------------------------------------
(* Bounds of the model                                                     *)

\* largest of the small totals and limits a page count is computed for
MaxTotal == 9
MaxLimit == 4
\* outcomes of the random source in one call of the content generator: 0 .. MaxDraw
MaxDraw == 2
\* most requests the request logger records
MaxLogged == 1
\* largest totalCount handed to the loader loop
MaxCount == 2001
\* number of loads / requests one behaviour issues
MaxLoads == 2
\* rows the single-row insert path adds in one behaviour
MaxInserts == 3
\* clock resolution: instants per second that a timestamptz can tell apart
TicksPerSecond == 2

---------------------------------------------------------------------------
(* Program constants                                                       *)

batchSize == 1000
SecondsPerDay == 86400
DefaultPage == 1
DefaultLimit == 50

RecordCountEnum == {1000, 10000, 100000, 1000000, 10000000}
ContentSizeEnum == {"small", "medium", "large"}

---------------------------------------------------------------------------
(* Generic helpers                                                         *)

Min(a, b) == IF a <= b THEN a ELSE b
Max(a, b) == IF a >= b THEN a ELSE b

RECURSIVE SumSeq(_)
SumSeq(s) == IF s = <<>> THEN 0 ELSE Head(s) + SumSeq(Tail(s))

\* Go's integer division truncates toward zero
GoDiv(a, b) ==
    IF (a >= 0) = (b > 0) THEN (IF a >= 0 THEN a ELSE -a) \div (IF b >= 0 THEN b ELSE -b)
    ELSE -((IF a >= 0 THEN a ELSE -a) \div (IF b >= 0 THEN b ELSE -b))

---------------------------------------------------------------------------
(* 32-bit conversion: int32((page - 1) * limit).  A 32-bit word is kept as *)
(* two 16-bit halves so that the product wraps the way the machine's does. *)

Half == 65536

W(hi, lo) == [hi |-> hi, lo |-> lo]

\* two's complement word of an integer in the signed 32-bit range
ToWord(x) ==
    IF x >= 0 THEN W(x \div Half, x % Half)
    ELSE LET y == (x + 2147483647) + 1 IN W((y \div Half) + 32768, y % Half)

\* the signed value of a word
FromWord(w) ==
    IF w.hi >= 32768 THEN (w.hi - Half) * Half + w.lo ELSE w.hi * Half + w.lo

AddWord(a, b) ==
    LET lo == a.lo + b.lo
    IN  W((a.hi + b.hi + (lo \div Half)) % Half, lo % Half)

\* x * y mod 2^16 for 16-bit x, y, by the bytes of y
MulHalf(x, y) == (x * (y % 256) + ((x * (y \div 256)) % 256) * 256) % Half

\* the 32-bit product of two 16-bit halves, by the bytes of y
MulHalves(x, y) ==
    LET p == x * (y % 256)
        q == x * (y \div 256)
    IN  AddWord(W(p \div Half, p % Half), W((q \div 256) % Half, (q % 256) * 256))

\* the low 32 bits of the product of two words
MulWord(a, b) ==
    LET low == MulHalves(a.lo, b.lo)
        cross == (MulHalf(a.hi, b.lo) + MulHalf(a.lo, b.hi)) % Half
    IN  W((low.hi + cross) % Half, low.lo)

\* int32(a * b)
MulInt32(a, b) == FromWord(MulWord(ToWord(a), ToWord(b)))

---------------------------------------------------------------------------
(* 64-bit integers: Go's int and int64 on the server.  A value is kept in   *)
(* two's complement as four 16-bit digits <<d0, d1, d2, d3>>, lowest first, *)
(* so that sums wrap and quotients truncate the way the machine's do.       *)

Digits(d3, d2, d1, d0) == <<d0, d1, d2, d3>>

Zero64 == Digits(0, 0, 0, 0)
One64 == Digits(0, 0, 0, 1)

Not64(a) == [i \in 1..4 |-> 65535 - a[i]]

\* int64(n) of an integer of the signed 32-bit range
Int64(n) ==
    IF n >= 0 THEN <<n % Half, n \div Half, 0, 0>>
    ELSE Not64(<<(-(n + 1)) % Half, (-(n + 1)) \div Half, 0, 0>>)

\* a + b, wrapping
Add64(a, b) ==
    LET s1 == a[1] + b[1]
        s2 == a[2] + b[2] + (s1 \div Half)
        s3 == a[3] + b[3] + (s2 \div Half)
        s4 == a[4] + b[4] + (s3 \div Half)
    IN  <<s1 % Half, s2 % Half, s3 % Half, s4 % Half>>

Neg64(a) == Add64(Not64(a), One64)

Sub64(a, b) == Add64(a, Neg64(b))

IsNeg64(a) == a[4] >= 32768

\* the value as an unsigned number: a < b
ULess(a, b) ==
    \/ a[4] < b[4]
    \/ a[4] = b[4] /\ a[3] < b[3]
    \/ a[4] = b[4] /\ a[3] = b[3] /\ a[2] < b[2]
    \/ a[4] = b[4] /\ a[3] = b[3] /\ a[2] = b[2] /\ a[1] < b[1]

\* |a| as an unsigned number
Mag64(a) == IF IsNeg64(a) THEN Neg64(a) ELSE a

\* bit i of a, 0 the lowest
Bit64(a, i) == (a[(i \div 16) + 1] \div (2 ^ (i % 16))) % 2

\* 2 * a + c, wrapping
Shl64(a, c) ==
    LET s1 == 2 * a[1] + c
        s2 == 2 * a[2] + (s1 \div Half)
        s3 == 2 * a[3] + (s2 \div Half)
        s4 == 2 * a[4] + (s3 \div Half)
    IN  <<s1 % Half, s2 % Half, s3 % Half, s4 % Half>>

\* one step of the long division: bring down bit i of a
DivStep(qr, a, b, i) ==
    CHOOSE s \in {IF ULess(r, b) THEN <<Shl64(qr[1], 0), r>>
                                 ELSE <<Shl64(qr[1], 1), Sub64(r, b)>> :
                     r \in {Shl64(qr[2], Bit64(a, i))}} : TRUE

\* the long division continued from <<quotient, remainder>> qr over the bits
\* hi .. lo of a, the upper half of them first
RECURSIVE DivBits(_, _, _, _, _)
DivBits(qr, a, b, hi, lo) ==
    IF hi < lo THEN qr
    ELSE IF hi = lo THEN DivStep(qr, a, b, hi)
    ELSE CHOOSE s \in {DivBits(upper, a, b, ((hi + lo + 1) \div 2) - 1, lo) :
                          upper \in {DivBits(qr, a, b, hi, (hi + lo + 1) \div 2)}} : TRUE

\* <<quotient, remainder>> of the unsigned a by the unsigned b # 0, once the
\* bits 63 .. i of a are brought down
DivFrom(a, b, i) == DivBits(<<Zero64, Zero64>>, a, b, 63, i)

Fits31(a) == a[4] = 0 /\ a[3] = 0 /\ a[2] < 32768

\* <<quotient, remainder>> of unsigned numbers
UDivMod(a, b) ==
    IF Fits31(a) /\ Fits31(b)
    THEN LET x == a[2] * Half + a[1]
             y == b[2] * Half + b[1]
         IN  <<Int64(x \div y), Int64(x % y)>>
    ELSE DivFrom(a, b, 0)

\* a / b of Go: the quotient truncated toward zero, b # 0
Div64(a, b) ==
    LET q == UDivMod(Mag64(a), Mag64(b))[1]
    IN  IF IsNeg64(a) = IsNeg64(b) THEN q ELSE Neg64(q)

\* the integer a 64-bit value stands for; a value beyond the signed 32-bit
\* range stays in digits
IntOf(a) ==
    IF Fits31(a) THEN a[2] * Half + a[1]
    ELSE IF Fits31(Not64(a)) THEN -(Not64(a)[2] * Half + Not64(a)[1]) - 1
    ELSE a

\* int32(a): the low 32 bits, signed
Int32Of(a) == FromWord(W(a[2], a[1]))

---------------------------------------------------------------------------
(* Time.  An instant is a number of ticks since 2024-01-01T00:00:00Z.      *)

IsLeap(y) == (y % 4 = 0 /\ y % 100 # 0) \/ y % 400 = 0

DaysInMonth(y, m) ==
    IF m \in {4, 6, 9, 11} THEN 30
    ELSE IF m = 2 THEN (IF IsLeap(y) THEN 29 ELSE 28)
    ELSE 31

RECURSIVE DaysBeforeMonth(_, _)
DaysBeforeMonth(y, m) ==
    IF m <= 1 THEN 0 ELSE DaysBeforeMonth(y, m - 1) + DaysInMonth(y, m - 1)

RECURSIVE DaysBeforeYear(_)
DaysBeforeYear(y) ==
    IF y <= 2024 THEN 0
    ELSE DaysBeforeYear(y - 1) + (IF IsLeap(y - 1) THEN 366 ELSE 365)

\* days from 2024-01-01 to y-m-d, for dates from 2024 on
DayNumber(y, m, d) == DaysBeforeYear(y) + DaysBeforeMonth(y, m) + (d - 1)

TicksPerDay == SecondsPerDay * TicksPerSecond

\* the instant y-m-d hh:mm:ss plus sub ticks
At(y, m, d, hh, mm, ss, sub) ==
    DayNumber(y, m, d) * TicksPerDay + ((hh * 60 + mm) * 60 + ss) * TicksPerSecond + sub

\* The text of a date parameter: DateStr(y, m, d) is the text YYYY-MM-DD with
\* these numbers, which need not name a day of the calendar; JunkStr is a text
\* of another shape.
DateStr(y, m, d) == [y |-> y, m |-> m, d |-> d]
JunkStr == [y |-> 0, m |-> 0, d |-> 0]

\* time.Parse("2006-01-02", s): the instant of midnight UTC, or an error
ParseDate(s) ==
    IF s.y >= 2024 /\ s.m \in 1..12 /\ s.d \in 1..DaysInMonth(s.y, s.m)
    THEN [ok |-> TRUE, t |-> DayNumber(s.y, s.m, s.d) * TicksPerDay]
    ELSE [ok |-> FALSE, t |-> 0]

\* pgtype value: Valid = FALSE is SQL NULL (z is the zero value of the type)
Null(z) == [Valid |-> FALSE, v |-> z]
Some(x) == [Valid |-> TRUE, v |-> x]

---------------------------------------------------------------------------
(* Query-string values of type *string: absent (nil), "" or a text.        *)

NilParam(z) == [kind |-> "nil", s |-> z]
EmptyParam(z) == [kind |-> "empty", s |-> z]
TextParam(x) == [kind |-> "text", s |-> x]

\* filter.X != nil && *filter.X != ""
\* mutant: only a missing parameter counts as not given
Given_NotNil(p) == p.kind # "nil"

Given(p) == p.kind = "text"

\* The text of a user_id parameter: a UUID written in one of the forms
\* uuid.Parse accepts, or a text that is no UUID.
UuidForms == {"canonical", "urn", "braced", "hex"}
UuidStr(form, id) == [form |-> form, id |-> id]
NoUuidStr == [form |-> "none", id |-> 0]

\* uuid.Parse
ParseUUID(s) ==
    IF s.form \in UuidForms THEN [ok |-> TRUE, id |-> s.id] ELSE [ok |-> FALSE, id |-> 0]

---------------------------------------------------------------------------
(* Text search.  content::text and the search terms are sequences of       *)
(* one-character strings.                                                  *)

Lower(c) ==
    CASE c = "L" -> "l" [] c = "E" -> "e" [] c = "O" -> "o" [] OTHER -> c

IsWordChar(c) == c \notin {" ", "_", ":", "%", "!"}

\* LIKE with the wildcards % and _, letters compared case-insensitively
RECURSIVE Like(_, _)
Like(t, p) ==
    IF p = <<>> THEN t = <<>>
    ELSE IF Head(p) = "%" THEN Like(t, Tail(p)) \/ (t # <<>> /\ Like(Tail(t), p))
    ELSE /\ t # <<>>
         /\ (Head(p) = "_" \/ Lower(Head(p)) = Lower(Head(t)))
         /\ Like(Tail(t), Tail(p))

\* content::text ILIKE '%' || term || '%'
ILike(text, term) == Like(text, <<"%">> \o term \o <<"%">>)

\* the english stemmer, as far as the corpus needs it: a plural loses its s
Stem(w) == IF Len(w) > 2 /\ w[Len(w)] = "s" THEN SubSeq(w, 1, Len(w) - 1) ELSE w

StopWords == {<<"a">>, <<"i", "s">>}

Lexeme(cur) ==
    IF cur = <<>> \/ cur \in StopWords THEN {} ELSE {Stem(cur)}

\* to_tsvector('english', text) as a set of lexemes
RECURSIVE Tokenize(_, _)
Tokenize(s, cur) ==
    IF s = <<>> THEN Lexeme(cur)
    ELSE IF IsWordChar(Head(s)) THEN Tokenize(Tail(s), Append(cur, Lower(Head(s))))
    ELSE Lexeme(cur) \cup Tokenize(Tail(s), <<>>)

\* to_tsvector('english', text) @@ plainto_tsquery('english', term)
FtsMatch(text, term) ==
    LET q == Tokenize(term, <<>>) IN q # {} /\ q \subseteq Tokenize(text, <<>>)

---------------------------------------------------------------------------
(* The logs table                                                          *)

Group(id, n, user, domain, action, content, at) ==
    [id |-> id, n |-> n, user_id |-> user, domain |-> domain, action |-> action,
     content |-> content, created_at |-> at]

\* the rows a group stands for
RowsOfGroup(g) ==
    {[id |-> g.id + k, user_id |-> g.user_id, domain |-> g.domain, action |-> g.action,
      content |-> g.content, created_at |-> g.created_at] : k \in 0..(g.n - 1)}

Rows(tbl) == UNION {RowsOfGroup(tbl[i]) : i \in DOMAIN tbl}

RECURSIVE RowCount(_)
RowCount(tbl) == IF tbl = <<>> THEN 0 ELSE Head(tbl).n + RowCount(Tail(tbl))

\* mutant: the user_id condition is missing from the WHERE clause
MatchesWithFilters_NoUser(r, p) ==
    /\ (~p.Domain.Valid \/ r.domain = p.Domain.v)
    /\ (~p.CreatedAtFrom.Valid \/ r.created_at >= p.CreatedAtFrom.v)
    /\ (~p.CreatedAtTo.Valid \/ r.created_at <= p.CreatedAtTo.v)
    /\ (~p.ContentSearch.Valid \/ FtsMatch(r.content.text, p.ContentSearch.v))

\* WHERE clause of ListLogsWithFilters / CountLogsWithFilters
MatchesWithFilters(r, p) ==
    /\ (~p.UserID.Valid \/ r.user_id = p.UserID.v)
    /\ (~p.Domain.Valid \/ r.domain = p.Domain.v)
    /\ (~p.CreatedAtFrom.Valid \/ r.created_at >= p.CreatedAtFrom.v)
    /\ (~p.CreatedAtTo.Valid \/ r.created_at <= p.CreatedAtTo.v)
    /\ (~p.ContentSearch.Valid \/ FtsMatch(r.content.text, p.ContentSearch.v))

\* WHERE clause of SearchLogsPartial / CountLogsPartial
MatchesPartial(r, p) ==
    /\ (~p.UserID.Valid \/ r.user_id = p.UserID.v)
    /\ (~p.Domain.Valid \/ r.domain = p.Domain.v)
    /\ (~p.CreatedAtFrom.Valid \/ r.created_at >= p.CreatedAtFrom.v)
    /\ (~p.CreatedAtTo.Valid \/ r.created_at <= p.CreatedAtTo.v)
    /\ p.SearchTerm.Valid /\ ILike(r.content.text, p.SearchTerm.v)

Matches(mode, r, p) ==
    IF mode = "partial" THEN MatchesPartial(r, p) ELSE MatchesWithFilters(r, p)

\* SELECT COUNT(*) ... WHERE
RECURSIVE CountRows(_, _, _)
CountRows(mode, tbl, p) ==
    IF tbl = <<>> THEN 0
    ELSE (IF Matches(mode, Head(tbl), p) THEN Head(tbl).n ELSE 0)
         + CountRows(mode, Tail(tbl), p)

\* ORDER BY created_at DESC: every order of the rows (or groups) M that is
\* non-increasing in created_at; those with equal created_at come in any order
RECURSIVE Orders(_)
Orders(M) ==
    IF M = {} THEN {<<>>}
    ELSE UNION {{<<r>> \o o : o \in Orders(M \ {r})} :
                r \in {x \in M : \A y \in M : y.created_at <= x.created_at}}

\* LIMIT limit OFFSET offset of one ordered result
Window(o, limit, offset) ==
    IF offset >= Len(o) \/ limit = 0 THEN <<>>
    ELSE SubSeq(o, offset + 1, Min(Len(o), offset + limit))

\* the rows of a group in the order of their ids, upwards or downwards
RowsInOrder(g, up) ==
    [k \in 1..g.n |->
        [id |-> IF up THEN g.id + k - 1 ELSE g.id + g.n - k, user_id |-> g.user_id,
         domain |-> g.domain, action |-> g.action, content |-> g.content,
         created_at |-> g.created_at]]

RECURSIVE Flatten(_, _, _)
Flatten(o, ups, i) ==
    IF i > Len(o) THEN <<>> ELSE RowsInOrder(o[i], ups[i]) \o Flatten(o, ups, i + 1)

\* SELECT ... WHERE ... ORDER BY created_at DESC LIMIT .. OFFSET ..: the results
\* storage may return; a negative LIMIT or OFFSET is an error (no result).
\* The rows of one group tie and differ by id only: of their orders the two
\* by id stand for all, and the groups among themselves take every order.
ListRows(mode, tbl, p, limit, offset) ==
    IF limit < 0 \/ offset < 0 THEN {}
    ELSE LET G == {tbl[i] : i \in {j \in DOMAIN tbl : Matches(mode, tbl[j], p)}}
         IN  {Window(Flatten(o[1], o[2], 1), limit, offset) :
                 o \in UNION {{<<go, ups>> :
                                  ups \in {f \in [1..Len(go) -> BOOLEAN] :
                                              \A i \in 1..Len(go) : go[i].n = 1 => f[i]}} :
                              go \in Orders(G)}}

---------------------------------------------------------------------------
(* Content documents                                                       *)

Doc(kind, size, text) == [kind |-> kind, size |-> size, text |-> text]

\* utils.GenerateSampleContent(size): the documents the loader draws from, by
\* the text of their action_type / status values
GenerateSampleContent(size, action_type) ==
    LET class == IF size \in {"small", "medium", "large"} THEN size ELSE "small"
    IN  IF action_type = "user_login"
        THEN Doc("object", class, <<"u", "s", "e", "r", "_", "l", "o", "g", "i", "n">>)
        ELSE Doc("object", class, <<"p", "a", "g", "e", "_", "v", "i", "e", "w", "s">>)

getRandomDomain == {"example.com", "test.org"}
getRandomAction == {"user_login", "page_view"}

\* The documents of utils/generator.go as maps from field names to values.
\* A field name is <<text, i>>: i is the number the name ends in, -1 if none.
\* A value is the outcome of the random source in the call that made it.
Field(name) == <<name, -1>>

SmallFields ==
    {Field(n) : n \in {
        "event_id", "session_id", "ip_address", "user_agent", "timestamp",
        "action_type", "status", "duration", "device_id"}}

MediumFields ==
    {Field(n) : n \in {
        "request_id", "correlation_id", "source_ip", "destination_ip",
        "protocol", "port", "bytes_sent", "bytes_received", "latency",
        "error_code", "retry_count", "cache_hit", "compression", "encrypted",
        "region", "datacenter", "service_version", "build_number",
        "environment", "tenant_id", "org_id", "team_id", "project_id",
        "feature_flag", "ab_test", "experiment_id", "segment", "cohort",
        "tier", "plan", "quota", "usage", "limit", "remaining",
        "renewal_date", "last_login", "first_login", "session_count",
        "total_sessions", "country", "city", "timezone", "language",
        "currency", "description", "notes"}}

\* for k, v := range additionalFields { content[k] = v }
Assign(content, more) ==
    [k \in DOMAIN content \cup DOMAIN more |-> IF k \in DOMAIN more THEN more[k] ELSE content[k]]

generateSmallContent(draw) == [k \in SmallFields |-> draw]

\* mutant: the additional fields alone
generateMediumContent_Fresh(draw) == [k \in MediumFields |-> draw]

generateMediumContent(draw) ==
    Assign(generateSmallContent(draw), [k \in MediumFields |-> draw])

\* the four loops of generateLargeContent; an array has 1 + draw items
generateLargeContent(draw) ==
    LET fields == [k \in {<<"field_", i>> : i \in 0..499} |-> draw]
        japanese == [k \in {<<"japanese_field_", i>> : i \in 0..199} |-> draw]
        nested == [k \in {<<"nested_obj_", i>> : i \in 0..99} |->
                      [j \in 0..9 |-> draw]]
        arrays == [k \in {<<"array_field_", i>> : i \in 0..49} |->
                      [j \in 1..(draw + 1) |-> draw]]
    IN  Assign(Assign(Assign(Assign(generateMediumContent(draw), fields),
                             japanese), nested), arrays)

\* the switch of utils.GenerateSampleContent
GenerateSampleContentMap(size, draw) ==
    CASE size = "small" -> generateSmallContent(draw)
      [] size = "medium" -> generateMediumContent(draw)
      [] size = "large" -> generateLargeContent(draw)
      [] OTHER -> generateSmallContent(draw)

---------------------------------------------------------------------------
(* Handler.InitializeData                                                  *)

\* mutant: the fields are required, their values are not checked
ShouldBindJSON_Required(raw) ==
    /\ raw.record_count # 0
    /\ raw.content_size # ""

\* binding:"required,oneof=..." of models.InitializeRequest; a raw request is
\* [record_count, content_size] with 0 / "" for a missing field
ShouldBindJSON(raw) ==
    /\ raw.record_count # 0
    /\ raw.record_count \in RecordCountEnum
    /\ raw.content_size # ""
    /\ raw.content_size \in ContentSizeEnum

\* mutant: the batch count rounded down
TotalBatches_Floor(RecordCount) == GoDiv(RecordCount, batchSize)

\* totalBatches := (req.RecordCount + batchSize - 1) / batchSize
TotalBatches(RecordCount) == GoDiv(RecordCount + batchSize - 1, batchSize)

\* mutant: the last batch always takes the remainder
CurrentBatchSize_Mod(RecordCount, batch) ==
    IF batch = TotalBatches(RecordCount) - 1
    THEN RecordCount % batchSize
    ELSE batchSize

\* the size of batch number batch (from 0) of a load
CurrentBatchSize(RecordCount, batch) ==
    IF batch = TotalBatches(RecordCount) - 1
    THEN RecordCount - (batch * batchSize)
    ELSE batchSize

IdleLoad ==
    [pc |-> "idle", RecordCount |-> 0, ContentSize |-> "", totalBatches |-> 0,
     batch |-> 0, totalInserted |-> 0, status |-> 0, record_count |-> 0,
     failedBatch |-> -1, submitted |-> <<>>, returned |-> <<>>, before |-> <<>>,
     raw |-> [record_count |-> 0, content_size |-> ""], loads |-> 0]

\* lines 133-137: the state on entering the batch loop
EnterLoop(RecordCount, ContentSize) ==
    [ld EXCEPT !.pc = "loop", !.RecordCount = RecordCount, !.ContentSize = ContentSize,
               !.totalBatches = TotalBatches(RecordCount), !.batch = 0,
               !.totalInserted = 0, !.status = 0, !.record_count = 0,
               !.failedBatch = -1, !.submitted = <<>>, !.returned = <<>>,
               !.before = table, !.loads = ld.loads + 1,
               !.raw = [record_count |-> RecordCount, content_size |-> ContentSize]]

\* POST /initialize: bind the request; a rejected request is answered 400
\* before anything else happens
InitializeData(raw) ==
    /\ ld.pc = "idle"
    /\ ld.loads < MaxLoads
    /\ ld' = IF ShouldBindJSON(raw)
             THEN EnterLoop(raw.record_count, raw.content_size)
             ELSE [IdleLoad EXCEPT !.pc = "done", !.status = 400, !.before = table,
                                   !.raw = raw, !.loads = ld.loads + 1]
    /\ UNCHANGED <<table, nextId, nextUuid, rq, walk, calc, sd, bm>>

\* the loader as load(totalCount, sizeClass): the loop entered with any count
LoadStart(totalCount, size) ==
    /\ ld.pc = "idle"
    /\ ld.loads < MaxLoads
    /\ ld' = EnterLoop(totalCount, size)
    /\ UNCHANGED <<table, nextId, nextUuid, rq, walk, calc, sd, bm>>

\* the groups one accepted batch adds: rows rows of one user_id and domain, the
\* first with attributes x, the others with attributes y
BatchGroups(id, rows, user, domain, x, y) ==
    IF rows = 0 THEN <<>>
    ELSE IF rows = 1 \/ x = y
    THEN <<Group(id, rows, user, domain, x.action, x.content, x.created_at)>>
    ELSE <<Group(id, 1, user, domain, x.action, x.content, x.created_at),
           Group(id + 1, rows - 1, user, domain, y.action, y.content, y.created_at)>>

\* what storage answers to a bulk copy of size rows: an error, or the number of
\* rows it took
CopyFromOutcomes(size) ==
    {[ok |-> FALSE, rows |-> 0]} \cup
    {[ok |-> TRUE, rows |-> r] : r \in {size, Max(size - 1, 0)}}

\* mutant: a failed batch is submitted again
AfterBatch_Retry(out, size) ==
    IF out.ok
    THEN [ld EXCEPT !.batch = ld.batch + 1,
                    !.totalInserted = ld.totalInserted + out.rows,
                    !.submitted = Append(ld.submitted, size),
                    !.returned = Append(ld.returned, out.rows)]
    ELSE [ld EXCEPT !.submitted = Append(ld.submitted, size)]

\* mutant: a failed batch is skipped and the loop goes on
AfterBatch_SkipFailed(out, size) ==
    IF out.ok
    THEN [ld EXCEPT !.batch = ld.batch + 1,
                    !.totalInserted = ld.totalInserted + out.rows,
                    !.submitted = Append(ld.submitted, size),
                    !.returned = Append(ld.returned, out.rows)]
    ELSE [ld EXCEPT !.batch = ld.batch + 1, !.failedBatch = ld.batch,
                    !.submitted = Append(ld.submitted, size)]

\* the handler's state after BulkInsertLogs answered out to a batch of size
AfterBatch(out, size) ==
    IF out.ok
    THEN [ld EXCEPT !.batch = ld.batch + 1,
                    !.totalInserted = ld.totalInserted + out.rows,
                    !.submitted = Append(ld.submitted, size),
                    !.returned = Append(ld.returned, out.rows)]
    ELSE [ld EXCEPT !.pc = "done", !.status = 500, !.failedBatch = ld.batch,
                    !.submitted = Append(ld.submitted, size)]

\* one iteration of the batch loop, lines 139-185
InitializeBatch(domains, actions, times) ==
    /\ ld.pc = "loop"
    /\ ld.batch < ld.totalBatches
    /\ LET size == CurrentBatchSize(ld.RecordCount, ld.batch)
           attrs == {[action |-> a, content |-> GenerateSampleContent(ld.ContentSize, c),
                      created_at |-> t] : a \in actions, c \in actions, t \in times}
       IN  \E domain \in domains, x \in attrs, y \in attrs,
              out \in CopyFromOutcomes(size) :
             /\ ld' = AfterBatch(out, size)
             /\ table' = IF out.ok
                         THEN table \o BatchGroups(nextId, out.rows, nextUuid, domain, x, y)
                         ELSE table
             /\ nextId' = IF out.ok THEN nextId + out.rows ELSE nextId
             /\ nextUuid' = nextUuid + 1
    /\ UNCHANGED <<rq, walk, calc, sd, bm>>

\* mutant: the report repeats the requested count
InitializeFinish_Requested ==
    /\ ld.pc = "loop"
    /\ ld.batch >= ld.totalBatches
    /\ ld' = [ld EXCEPT !.pc = "done", !.status = 200, !.record_count = ld.RecordCount]
    /\ UNCHANGED <<table, nextId, nextUuid, rq, walk, calc, sd, bm>>

\* lines 187-198: the loop is over, report what was inserted
InitializeFinish ==
    /\ ld.pc = "loop"
    /\ ld.batch >= ld.totalBatches
    /\ ld' = [ld EXCEPT !.pc = "done", !.status = 200, !.record_count = ld.totalInserted]
    /\ UNCHANGED <<table, nextId, nextUuid, rq, walk, calc, sd, bm>>

\* the handler has returned; the next request may come
InitializeReturn ==
    /\ ld.pc = "done"
    /\ ld.loads < MaxLoads
    /\ ld' = [IdleLoad EXCEPT !.loads = ld.loads]
    /\ UNCHANGED <<table, nextId, nextUuid, rq, walk, calc, sd, bm>>

---------------------------------------------------------------------------
(* Handler.GetLogs and Handler.SearchLogsPartial                           *)

\* a page / limit query value: absent, an integer, or a text that is none
NoArg == [kind |-> "absent", v |-> 0]
IntArg(v) == [kind |-> "int", v |-> v]
BadArg == [kind |-> "text", v |-> 0]

Query(user_id, domain, created_at, created_at_to, content_like, search_term, page, limit) ==
    [user_id |-> user_id, domain |-> domain, created_at |-> created_at,
     created_at_to |-> created_at_to, content_like |-> content_like,
     search_term |-> search_term, page |-> page, limit |-> limit]

NoQuery ==
    Query(NilParam(NoUuidStr), NilParam(""), NilParam(JunkStr), NilParam(JunkStr),
          NilParam(<<>>), NilParam(<<>>), NoArg, NoArg)

\* c.ShouldBindQuery(&filter): only the two int fields can fail to bind
ShouldBindQuery(raw) == raw.page.kind # "text" /\ raw.limit.kind # "text"

\* the models.LogFilter a query binds to
LogFilter(raw) ==
    [UserID |-> raw.user_id, Domain |-> raw.domain, CreatedAt |-> raw.created_at,
     CreatedAtTo |-> raw.created_at_to, ContentLike |-> raw.content_like,
     SearchTerm |-> raw.search_term,
     Page |-> IF raw.page.kind = "int" THEN raw.page.v ELSE DefaultPage,
     Limit |-> IF raw.limit.kind = "int" THEN raw.limit.v ELSE DefaultLimit]

\* mutant: a text that is no UUID filters by the zero UUID
UserIDParam_Zero(filter) ==
    IF Given(filter.UserID) THEN Some(ParseUUID(filter.UserID.s).id) ELSE Null(0)

\* the user_id parameter of both handlers
UserIDParam(filter) ==
    IF Given(filter.UserID) /\ ParseUUID(filter.UserID.s).ok
    THEN Some(ParseUUID(filter.UserID.s).id)
    ELSE Null(0)

\* mutant: the domain of the request is not handed on
DomainParam_Ignored(filter) == Null("")

DomainParam(filter) ==
    IF Given(filter.Domain) THEN Some(filter.Domain.s) ELSE Null("")

CreatedAtFromParam(filter) ==
    IF Given(filter.CreatedAt) /\ ParseDate(filter.CreatedAt.s).ok
    THEN Some(ParseDate(filter.CreatedAt.s).t)
    ELSE Null(0)

\* mutant: the upper bound is midnight of the next day
EndOfDay_NextMidnight(t) == t + SecondsPerDay * TicksPerSecond

\* t.Add(24*time.Hour - time.Second)
EndOfDay(t) == t + (SecondsPerDay * TicksPerSecond - TicksPerSecond)

CreatedAtToParam(filter) ==
    IF Given(filter.CreatedAtTo) /\ ParseDate(filter.CreatedAtTo.s).ok
    THEN Some(EndOfDay(ParseDate(filter.CreatedAtTo.s).t))
    ELSE Null(0)

\* mutant: a search_term, when given, is searched for in place of content_like
GetLogsParams_Term(filter) ==
    [UserID |-> UserIDParam(filter), Domain |-> DomainParam(filter),
     CreatedAtFrom |-> CreatedAtFromParam(filter),
     CreatedAtTo |-> CreatedAtToParam(filter),
     ContentSearch |-> IF Given(filter.SearchTerm) THEN Some(filter.SearchTerm.s)
                       ELSE IF Given(filter.ContentLike)
                       THEN Some(filter.ContentLike.s) ELSE Null(<<>>)]

\* the filter parameters Handler.GetLogs builds
GetLogsParams(filter) ==
    [UserID |-> UserIDParam(filter), Domain |-> DomainParam(filter),
     CreatedAtFrom |-> CreatedAtFromParam(filter),
     CreatedAtTo |-> CreatedAtToParam(filter),
     ContentSearch |-> IF Given(filter.ContentLike)
                       THEN Some(filter.ContentLike.s) ELSE Null(<<>>)]

\* the filter parameters Handler.SearchLogsPartial builds
SearchLogsPartialParams(filter) ==
    [UserID |-> UserIDParam(filter), Domain |-> DomainParam(filter),
     CreatedAtFrom |-> CreatedAtFromParam(filter),
     CreatedAtTo |-> CreatedAtToParam(filter),
     SearchTerm |-> Some(filter.SearchTerm.s)]

ParamsOf(h, filter) ==
    IF h = "SearchLogsPartial" THEN SearchLogsPartialParams(filter) ELSE GetLogsParams(filter)

ModeOf(h) == IF h = "SearchLogsPartial" THEN "partial" ELSE "fts"

\* the parameters handed to the count query
CountArgs(h, params) == params

\* mutant: the fetch query is not given the domain
FetchArgs_NoDomain(h, params) == [params EXCEPT !.Domain = Null("")]

\* the filter parameters handed to the fetch query
FetchArgs(h, params) == params

\* int32(x)
Int32(x) == FromWord(ToWord(x))

\* offset := int32((filter.Page - 1) * filter.Limit)
OffsetOf(filter) == MulInt32(filter.Page - 1, filter.Limit)

\* json.Unmarshal(log.Content, &content), with the "raw" fallback: a JSON
\* object or null unmarshals into the map, any other JSON value does not
ResponseContent(c) ==
    IF c.kind \in {"object", "null"} THEN c ELSE Doc("raw", c.size, c.text)

ResponseRow(r) == [r EXCEPT !.content = ResponseContent(r.content)]

\* mutant: a record whose content does not parse is left out of the page
ResponseData_SkipUnparsed(rows) ==
    LET kept == SelectSeq(rows, LAMBDA r : r.content.kind \in {"object", "null"})
    IN  [i \in 1..Len(kept) |-> ResponseRow(kept[i])]

ResponseData(rows) == [i \in 1..Len(rows) |-> ResponseRow(rows[i])]

\* (total + int64(filter.Limit) - 1) / int64(filter.Limit) on the 64-bit values
TotalPages64(total, Limit) == Div64(Sub64(Add64(total, Limit), One64), Limit)

\* totalPages := int((total + int64(filter.Limit) - 1) / int64(filter.Limit))
TotalPages(total, Limit) == IntOf(TotalPages64(Int64(total), Int64(Limit)))

IdleRequest ==
    [pc |-> "idle", handler |-> "", raw |-> NoQuery, params |-> GetLogsParams(LogFilter(NoQuery)),
     total |-> 0, status |-> 0, data |-> <<>>, resp_total |-> -1, total_pages |-> -1,
     countArgs |-> <<>>, fetchArgs |-> <<>>, limit |-> 0, offset |-> 0, rows |-> <<>>,
     tbl |-> <<>>, unchanged |-> FALSE, fetched |-> FALSE]

\* the value in hand of a computation that runs apart from the requests: none
NoCalc == [op |-> "none"]

\* The pages a client has put together by asking for page 1, 2, ... of one
\* query while the table stayed as it was; any other request drops them.
NoWalk ==
    [active |-> FALSE, handler |-> "", raw |-> NoQuery, next |-> 0, total |-> 0,
     total_pages |-> 0, acc |-> <<>>, tbl |-> <<>>]

Continues(h, raw) ==
    /\ walk.active /\ walk.handler = h
    /\ walk.raw = [raw EXCEPT !.page = NoArg]
    /\ walk.next = LogFilter(raw).Page

Observe(r) ==
    IF r.status # 200 \/ ~r.unchanged THEN walk
    ELSE LET page == LogFilter(r.raw).Page
         IN  IF page = 1
             THEN [active |-> TRUE, handler |-> r.handler,
                   raw |-> [r.raw EXCEPT !.page = NoArg], next |-> 2,
                   total |-> r.resp_total, total_pages |-> r.total_pages,
                   acc |-> r.data, tbl |-> r.tbl]
             ELSE IF /\ walk.active /\ walk.handler = r.handler
                     /\ walk.raw = [r.raw EXCEPT !.page = NoArg]
                     /\ walk.tbl = r.tbl /\ walk.next = page
             THEN [walk EXCEPT !.next = walk.next + 1, !.acc = walk.acc \o r.data]
             ELSE walk

\* mutant: the error answer carries the total already counted
ErrorResponse_KeepsTotal(r, status) ==
    [r EXCEPT !.pc = "done", !.status = status, !.data = <<>>, !.resp_total = r.total,
              !.total_pages = -1]

\* the request is answered with an error status and no body fields
ErrorResponse(r, status) ==
    [r EXCEPT !.pc = "done", !.status = status, !.data = <<>>, !.resp_total = -1,
              !.total_pages = -1]

\* bind, validate, build the parameters and run the count query
HandlerCount(h, raw) ==
    /\ rq.pc = "idle"
    /\ LET start == [IdleRequest EXCEPT !.handler = h, !.raw = raw, !.tbl = table]
           filter == LogFilter(raw)
       IN  IF ~ShouldBindQuery(raw)
           THEN rq' = ErrorResponse(start, 400)
           ELSE IF h = "SearchLogsPartial" /\ ~Given(filter.SearchTerm)
           THEN rq' = ErrorResponse(start, 400)
           ELSE LET params == ParamsOf(h, filter)
                    args == CountArgs(h, params)
                    counting == [start EXCEPT !.params = params, !.countArgs = <<args>>]
                IN  \/ rq' = ErrorResponse(counting, 500)
                    \/ rq' = [counting EXCEPT !.pc = "counted",
                                              !.total = CountRows(ModeOf(h), table, args)]
    /\ walk' = IF Continues(h, raw) THEN walk ELSE NoWalk
    /\ UNCHANGED <<table, nextId, nextUuid, ld, calc, sd, bm>>

\* mutant: the total is counted again when the page is there
Respond_Recount(r, rows) ==
    LET filter == LogFilter(r.raw)
        total == CountRows(ModeOf(r.handler), table, r.countArgs[1])
    IN  IF filter.Limit = 0
        THEN ErrorResponse([r EXCEPT !.rows = rows, !.fetched = TRUE], 500)
        ELSE [r EXCEPT !.pc = "done", !.status = 200, !.rows = rows, !.fetched = TRUE,
                       !.data = ResponseData(rows), !.resp_total = total,
                       !.total_pages = TotalPages(total, filter.Limit)]

\* the answer of the handler once the fetch query returned rows
Respond(r, rows) ==
    LET filter == LogFilter(r.raw)
    IN  IF filter.Limit = 0
        THEN ErrorResponse([r EXCEPT !.rows = rows, !.fetched = TRUE], 500)
        ELSE [r EXCEPT !.pc = "done", !.status = 200, !.rows = rows, !.fetched = TRUE,
                       !.data = ResponseData(rows), !.resp_total = r.total,
                       !.total_pages = TotalPages(r.total, filter.Limit)]

\* compute the window, run the fetch query and answer
HandlerFetch(h) ==
    /\ rq.pc = "counted"
    /\ rq.handler = h
    /\ LET filter == LogFilter(rq.raw)
           offset == OffsetOf(filter)
           limit == Int32(filter.Limit)
           args == FetchArgs(h, rq.params)
           fetching == [rq EXCEPT !.fetchArgs = <<args>>, !.limit = limit,
                                  !.offset = offset, !.unchanged = (table = rq.tbl)]
       IN  \/ rq' = ErrorResponse(fetching, 500)
           \/ \E rows \in ListRows(ModeOf(h), table, args, limit, offset) :
                 rq' = Respond(fetching, rows)
    /\ UNCHANGED <<table, nextId, nextUuid, ld, walk, calc, sd, bm>>

GetLogsCount(raw) == HandlerCount("GetLogs", raw)
GetLogsFetch == HandlerFetch("GetLogs")
SearchLogsPartialCount(raw) == HandlerCount("SearchLogsPartial", raw)
SearchLogsPartialFetch == HandlerFetch("SearchLogsPartial")

\* the handler has returned
RequestReturn ==
    /\ rq.pc = "done"
    /\ rq' = IdleRequest
    /\ UNCHANGED <<table, nextId, nextUuid, ld, walk, calc, sd, bm>>

\* the handler has returned to a client that keeps the page (loadLogs)
TakePage ==
    /\ rq.pc = "done"
    /\ walk' = Observe(rq)
    /\ rq' = IdleRequest
    /\ UNCHANGED <<table, nextId, nextUuid, ld, calc, sd, bm>>

\* CreateLog: the single-row insert
CreateLog(user, domain, action, content, at) ==
    /\ nextId <= MaxInserts
    /\ table' = Append(table, Group(nextId, 1, user, domain, action, content, at))
    /\ nextId' = nextId + 1
    /\ walk' = NoWalk
    /\ UNCHANGED <<nextUuid, ld, rq, calc, sd, bm>>

\* the single-record inserts so far: every id given out that no bulk copy took
Logged == nextId - 1 - ld.totalInserted - sd.inserted

\* mutant: the logged request replaces the newest record
RequestLogger_Overwrite(action, content, at) ==
    /\ Logged < MaxLogged
    /\ table' = IF table = <<>>
                THEN <<Group(nextId, 1, nextUuid, "example-api", action, content, at)>>
                ELSE [table EXCEPT ![Len(table)].action = action,
                                   ![Len(table)].content = content]
    /\ nextId' = nextId + 1
    /\ nextUuid' = nextUuid + 1
    /\ walk' = NoWalk
    /\ UNCHANGED <<ld, rq, calc, sd, bm>>

\* middleware.RequestLogger: one CreateLog per logged request, with a new
\* user_id, the domain "example-api" and the current time
RequestLogger(action, content, at) ==
    /\ Logged < MaxLogged
    /\ table' = Append(table, Group(nextId, 1, nextUuid, "example-api", action, content, at))
    /\ nextId' = nextId + 1
    /\ nextUuid' = nextUuid + 1
    /\ walk' = NoWalk
    /\ UNCHANGED <<ld, rq, calc, sd, bm>>

\* mutant: the oldest group survives the truncation
TruncateDatabase_KeepsFirst ==
    /\ \/ table' = (IF table = <<>> THEN <<>> ELSE <<Head(table)>>) /\ walk' = NoWalk
       \/ UNCHANGED <<table, walk>>
    /\ UNCHANGED <<nextId, nextUuid, ld, rq, calc, sd, bm>>

\* Handler.TruncateDatabase: TRUNCATE TABLE logs, or a storage error
TruncateDatabase ==
    /\ \/ table' = <<>> /\ walk' = NoWalk
       \/ UNCHANGED <<table, walk>>
    /\ UNCHANGED <<nextId, nextUuid, ld, rq, calc, sd, bm>>

---------------------------------------------------------------------------
(* seedData of the benchmark programs                                      *)

IdleSeed ==
    [pc |-> "idle", DatasetSize |-> 0, RecordSize |-> "", i |-> 0, submitted |-> <<>>,
     inserted |-> 0, err |-> FALSE]

\* mutant: the buffer is flushed when it holds more than batchSize records
SeedBatchSize_Over(DatasetSize, i) == Min(batchSize + 1, DatasetSize - i)

\* the records seedData has buffered when it next calls BulkInsertLogs, i
\* records being submitted already: batchSize of them inside the loop
\* (len(batch) >= batchSize), or the remainder after the loop
SeedBatchSize(DatasetSize, i) == Min(batchSize, DatasetSize - i)

\* seedData up to its loop: TruncateLogs, or its error
SeedData(DatasetSize, RecordSize) ==
    /\ sd.pc = "idle"
    /\ \/ /\ table' = <<>>
          /\ walk' = NoWalk
          /\ sd' = [IdleSeed EXCEPT !.pc = "loop", !.DatasetSize = DatasetSize,
                                    !.RecordSize = RecordSize]
       \/ /\ sd' = [IdleSeed EXCEPT !.pc = "done", !.err = TRUE,
                                    !.DatasetSize = DatasetSize, !.RecordSize = RecordSize]
          /\ UNCHANGED <<table, walk>>
    /\ UNCHANGED <<nextId, nextUuid, ld, rq, calc, bm>>

\* the iterations of the loop up to the next BulkInsertLogs, and that call;
\* every record has its own user_id, of which the group keeps the first
SeedBatch(times) ==
    /\ sd.pc = "loop"
    /\ sd.i < sd.DatasetSize
    /\ LET size == SeedBatchSize(sd.DatasetSize, sd.i)
       IN  \E out \in CopyFromOutcomes(size), c \in getRandomAction, t \in times :
             LET x == [action |-> "login",
                       content |-> GenerateSampleContent(sd.RecordSize, c),
                       created_at |-> t]
             IN  /\ sd' = IF out.ok
                          THEN [sd EXCEPT !.i = sd.i + size,
                                          !.submitted = Append(sd.submitted, size),
                                          !.inserted = sd.inserted + out.rows]
                          ELSE [sd EXCEPT !.pc = "done", !.err = TRUE,
                                          !.submitted = Append(sd.submitted, size)]
                 /\ table' = IF out.ok
                             THEN table \o BatchGroups(nextId, out.rows, nextUuid,
                                                       "example.com", x, x)
                             ELSE table
                 /\ nextId' = IF out.ok THEN nextId + out.rows ELSE nextId
                 /\ nextUuid' = nextUuid + size
    /\ UNCHANGED <<ld, rq, walk, calc, bm>>

\* every record is submitted: return nil
SeedReturn ==
    /\ sd.pc = "loop"
    /\ sd.i >= sd.DatasetSize
    /\ sd' = [sd EXCEPT !.pc = "done"]
    /\ UNCHANGED <<table, nextId, nextUuid, ld, rq, walk, calc, bm>>

---------------------------------------------------------------------------
(* The search benchmark, cmd/benchmark                                     *)

\* a term that is given when discovery finds none
LoginTerm == <<"l", "o", "g", "i", "n">>
ErrorTerm == <<"e", "r", "r", "o", "r">>
\* shortTerm := "lo"
LoTerm == <<"l", "o">>
\* uuid.New().String(): a text no document holds
notFoundTerm == <<"9", "f", "-", "4", "c">>

IdleBench ==
    [pc |-> "start", phases |-> <<>>, queries |-> <<>>, count |-> 0, failed |-> FALSE,
     wordCounts |-> <<>>, commonTerm |-> <<>>, rareTerm |-> <<>>, shortTerm |-> <<>>,
     cases |-> <<>>, next |-> 0, errors |-> <<>>, report |-> <<>>]

\* a character of three bytes in UTF-8; every other character here has one
Kana == {"<ro>", "<gu>"}
Utf8Len(c) == IF c \in Kana THEN 3 ELSE 1

\* len(w): the bytes of w
RECURSIVE ByteLen(_)
ByteLen(w) == IF w = <<>> THEN 0 ELSE Utf8Len(Head(w)) + ByteLen(Tail(w))

\* the first byte or bytes of a character cut in the middle
Cut(c, bytes) == <<"<cut>", c, bytes>>

\* w[:n]: the first n bytes of w, for n <= len(w)
RECURSIVE BytePrefix(_, _)
BytePrefix(w, n) ==
    IF n = 0 THEN <<>>
    ELSE IF Utf8Len(Head(w)) <= n
    THEN <<Head(w)>> \o BytePrefix(Tail(w), n - Utf8Len(Head(w)))
    ELSE <<Cut(Head(w), n)>>

\* a text of whole characters; storage rejects any other as a parameter
ValidText(w) == \A i \in DOMAIN w : w[i] \notin {Cut(c, n) : c \in Kana, n \in 1..2}

\* strings.Fields(str): the words between the spaces, cur being the word begun
RECURSIVE Fields(_, _)
Fields(str, cur) ==
    LET word == IF cur = <<>> THEN <<>> ELSE <<cur>>
    IN  IF str = <<>> THEN word
        ELSE IF Head(str) = " " THEN word \o Fields(Tail(str), <<>>)
        ELSE Fields(Tail(str), Append(cur, Head(str)))

Cutset == {".", ",", "!", "?", "-", "(", ")", "[", "]", "{", "}", "\""}

\* strings.Trim(w, cutset)
RECURSIVE Trim(_)
Trim(w) ==
    IF w = <<>> THEN w
    ELSE IF Head(w) \in Cutset THEN Trim(Tail(w))
    ELSE IF w[Len(w)] \in Cutset THEN Trim(SubSeq(w, 1, Len(w) - 1))
    ELSE w

ToLower(w) == [i \in DOMAIN w |-> Lower(w[i])]

\* the words of one string value that are counted: lowercased, trimmed,
\* longer than 3 bytes
CountedWords(str) ==
    LET words == Fields(str, <<>>)
        trimmed == [i \in DOMAIN words |-> ToLower(Trim(words[i]))]
    IN  SelectSeq(trimmed, LAMBDA w : ByteLen(w) > 3)

\* ListLogs with LIMIT limit OFFSET 0 over the groups in the order o: each
\* group with the number of its rows among the first limit
RECURSIVE TakeFirst(_, _)
TakeFirst(o, limit) ==
    IF o = <<>> \/ limit = 0 THEN <<>>
    ELSE LET taken == Min(Head(o).n, limit)
         IN  <<[content |-> Head(o).content, taken |-> taken]>>
             \o TakeFirst(Tail(o), limit - taken)

\* ORDER BY created_at DESC LIMIT limit: the samples storage may return
ListLogs(tbl, limit) == {TakeFirst(o, limit) : o \in Orders({tbl[i] : i \in DOMAIN tbl})}

\* the words counted in one log of the sample: a content that is no JSON
\* object is skipped, the text of an object is its string value
WordsOfLog(content) == IF content.kind = "object" THEN CountedWords(content.text) ELSE <<>>

\* wordCounts after the loop over the sample
WordCounts(logs) ==
    LET words == UNION {{WordsOfLog(logs[i].content)[j] :
                            j \in DOMAIN WordsOfLog(logs[i].content)} : i \in DOMAIN logs}
        times(w, i) == Cardinality({j \in DOMAIN WordsOfLog(logs[i].content) :
                                       WordsOfLog(logs[i].content)[j] = w})
    IN  [w \in words |-> SumSeq([i \in DOMAIN logs |-> logs[i].taken * times(w, i)])]

\* sort.Slice by Value, largest first, of the pairs of the map: the sort is not
\* stable and the map has no order, so words of equal count come in any order
RECURSIVE SortedByValue(_)
SortedByValue(wc) ==
    IF DOMAIN wc = {} THEN {<<>>}
    ELSE UNION {{<<k>> \o rest : rest \in SortedByValue([x \in DOMAIN wc \ {k} |-> wc[x]])} :
                k \in {x \in DOMAIN wc : \A y \in DOMAIN wc : wc[y] <= wc[x]}}

\* mutant: the first word from the front with a count in [1, 5) is the rare one
ChooseTerms_FromFront(wc, sorted) ==
    LET few == {i \in DOMAIN sorted : wc[sorted[i]] >= 1 /\ wc[sorted[i]] < 5}
    IN  [common |-> sorted[1],
         rare |-> IF few = {} THEN sorted[Len(sorted)]
                  ELSE sorted[CHOOSE i \in few : \A j \in few : i <= j]]

\* lines 192-201: common is the first of sorted, rare the last, or the first
\* from the back whose count is in [1, 5)
ChooseTerms(wc, sorted) ==
    LET few == {i \in DOMAIN sorted : wc[sorted[i]] >= 1 /\ wc[sorted[i]] < 5}
    IN  [common |-> sorted[1],
         rare |-> IF few = {} THEN sorted[Len(sorted)]
                  ELSE sorted[CHOOSE i \in few : \A j \in few : j <= i]]

\* discoverTerms on a sample: the pairs of terms it may return
discoverTerms(logs) ==
    LET wc == WordCounts(logs)
    IN  IF DOMAIN wc = {} THEN {[common |-> LoginTerm, rare |-> ErrorTerm]}
        ELSE {ChooseTerms(wc, sorted) : sorted \in SortedByValue(wc)}

\* shortTerm: commonTerm[:2] when it has two bytes, "lo" otherwise
ShortTerm(commonTerm) ==
    IF ByteLen(commonTerm) >= 2 THEN BytePrefix(commonTerm, 2) ELSE LoTerm

BenchmarkCase(Name, SearchType, Term, Limit, Desc) ==
    [Name |-> Name, SearchType |-> SearchType, Term |-> Term, Limit |-> Limit, Desc |-> Desc]

\* cases := []BenchmarkCase{...}
Cases(rareTerm, commonTerm, shortTerm, count) ==
    <<BenchmarkCase("FTS Not Found", "FTS", notFoundTerm, 100, "Random UUID"),
      BenchmarkCase("FTS Rare (Few)", "FTS", rareTerm, 100, "Rare term"),
      BenchmarkCase("FTS Common (Many) Limit", "FTS", commonTerm, 100, "Common term, Limit 100"),
      BenchmarkCase("FTS Common (Many) NoLimit", "FTS", commonTerm, Int32(count), "Common term, Full Scan"),
      BenchmarkCase("FTS Short Input", "FTS", shortTerm, 100, "1-2 chars"),
      BenchmarkCase("Partial Not Found", "Partial", notFoundTerm, 100, "Random UUID"),
      BenchmarkCase("Partial Rare (Few)", "Partial", rareTerm, 100, "Rare term"),
      BenchmarkCase("Partial Common (Many) Limit", "Partial", commonTerm, 100, "Common term, Limit 100"),
      BenchmarkCase("Partial Common (Many) NoLimit", "Partial", commonTerm, Int32(count), "Common term, Full Scan"),
      BenchmarkCase("Partial Short Input", "Partial", shortTerm, 100, "1-2 chars")>>

\* the parameters runCase hands to ListLogsWithFilters or SearchLogsPartial
CaseParams(c) ==
    IF c.SearchType = "FTS"
    THEN [GetLogsParams(LogFilter(NoQuery)) EXCEPT !.ContentSearch = Some(c.Term)]
    ELSE [SearchLogsPartialParams(LogFilter(NoQuery)) EXCEPT !.SearchTerm = Some(c.Term)]

\* runCase: the results it may return; the query fails when storage says so,
\* and always on a negative LIMIT or a text that is not valid
runCase(c) ==
    {[Error |-> TRUE, RowsFound |-> 0]} \cup
    (IF c.Limit < 0 \/ ~ValidText(c.Term) THEN {}
     ELSE {[Error |-> FALSE,
            RowsFound |-> Min(c.Limit, CountRows(IF c.SearchType = "FTS" THEN "fts" ELSE "partial",
                                                 table, CaseParams(c)))]})

\* a query the benchmark has issued
Issued(q, term, limit, timed) == [q |-> q, term |-> term, limit |-> limit, timed |-> timed]

\* fmt.Sprintf("%d", n)
Sprintf(n) == <<"%d", n>>
AllStr == <<"ALL">>

\* lines 107-110: the cap column of a report row
LimitStr(c, count) == IF c.Limit = Int32(count) THEN AllStr ELSE Sprintf(c.Limit)

\* pgx.Connect, or log.Fatalf
BenchConnect ==
    /\ bm.pc = "start"
    /\ \/ bm' = [bm EXCEPT !.pc = "connected", !.phases = Append(bm.phases, "Connect")]
       \/ bm' = [bm EXCEPT !.pc = "fatal", !.phases = Append(bm.phases, "Connect"),
                           !.failed = TRUE]
    /\ UNCHANGED <<table, nextId, nextUuid, ld, rq, walk, calc, sd>>

\* 1. Get Dataset Stats: CountLogs, or log.Fatalf
BenchCountLogs ==
    /\ bm.pc = "connected"
    /\ LET counting == [bm EXCEPT !.phases = Append(bm.phases, "CountExisting"),
                                  !.queries = Append(bm.queries,
                                                     Issued("CountLogs", <<>>, 0, FALSE))]
       IN  \/ bm' = [counting EXCEPT !.pc = "counted", !.count = RowCount(table)]
           \/ bm' = [counting EXCEPT !.pc = "fatal", !.failed = TRUE]
    /\ UNCHANGED <<table, nextId, nextUuid, ld, rq, walk, calc, sd>>

\* the state once the terms are there: lines 67-90
WithTerms(b, terms) ==
    [b EXCEPT !.pc = "discovered", !.commonTerm = terms.common, !.rareTerm = terms.rare,
              !.shortTerm = ShortTerm(terms.common),
              !.cases = Cases(terms.rare, terms.common, ShortTerm(terms.common), b.count)]

\* 2. Discover Terms: the sample query fails and the defaults are taken, or
\* discoverTerms returns what it found
BenchDiscoverTerms ==
    /\ bm.pc = "counted"
    /\ LET sampling == [bm EXCEPT !.phases = Append(bm.phases, "DiscoverTerms"),
                                  !.queries = Append(bm.queries,
                                                     Issued("ListLogs", <<>>, 1000, FALSE))]
       IN  \/ bm' = WithTerms([sampling EXCEPT !.failed = TRUE],
                              [common |-> LoginTerm, rare |-> ErrorTerm])
           \/ \E logs \in ListLogs(table, 1000) : \E terms \in discoverTerms(logs) :
                 bm' = WithTerms([sampling EXCEPT !.wordCounts = WordCounts(logs)], terms)
    /\ UNCHANGED <<table, nextId, nextUuid, ld, rq, walk, calc, sd>>

\* mutant: no warm-up query is issued
BenchWarmUp_Skipped ==
    /\ bm.pc = "discovered"
    /\ bm' = [bm EXCEPT !.pc = "matrix", !.next = 1,
                        !.phases = Append(bm.phases, "WarmUp")]
    /\ UNCHANGED <<table, nextId, nextUuid, ld, rq, walk, calc, sd>>

\* 4. Warm Up: one full-text query whose result and error are dropped
BenchWarmUp ==
    /\ bm.pc = "discovered"
    /\ bm' = [bm EXCEPT !.pc = "matrix", !.next = 1,
                        !.phases = Append(bm.phases, "WarmUp"),
                        !.queries = Append(bm.queries,
                                           Issued("ListLogsWithFilters", bm.commonTerm, 10, FALSE))]
    /\ UNCHANGED <<table, nextId, nextUuid, ld, rq, walk, calc, sd>>

\* mutant: the loop over cases ends at the first case that fails
BenchRunCase_StopOnError ==
    /\ bm.pc = "matrix"
    /\ bm.next <= Len(bm.cases)
    /\ LET c == bm.cases[bm.next]
           running == [bm EXCEPT !.next = bm.next + 1,
                                 !.phases = IF bm.next = 1
                                            THEN Append(bm.phases, "ExecuteCaseMatrix")
                                            ELSE bm.phases,
                                 !.queries = Append(bm.queries,
                                     Issued(IF c.SearchType = "FTS" THEN "ListLogsWithFilters"
                                            ELSE "SearchLogsPartial", c.Term, c.Limit, TRUE))]
       IN  \E res \in runCase(c) :
             bm' = IF res.Error
                   THEN [running EXCEPT !.errors = Append(bm.errors, c.Name),
                                        !.next = Len(bm.cases) + 1]
                   ELSE [running EXCEPT !.report = Append(bm.report,
                            [Type |-> c.SearchType, Case |-> c.Name,
                             Limit |-> LimitStr(c, bm.count), Rows |-> res.RowsFound,
                             Description |-> c.Desc])]
    /\ UNCHANGED <<table, nextId, nextUuid, ld, rq, walk, calc, sd>>

\* 5. Run Benchmark: one iteration of the loop over cases
BenchRunCase ==
    /\ bm.pc = "matrix"
    /\ bm.next <= Len(bm.cases)
    /\ LET c == bm.cases[bm.next]
           running == [bm EXCEPT !.next = bm.next + 1,
                                 !.phases = IF bm.next = 1
                                            THEN Append(bm.phases, "ExecuteCaseMatrix")
                                            ELSE bm.phases,
                                 !.queries = Append(bm.queries,
                                     Issued(IF c.SearchType = "FTS" THEN "ListLogsWithFilters"
                                            ELSE "SearchLogsPartial", c.Term, c.Limit, TRUE))]
       IN  \E res \in runCase(c) :
             bm' = IF res.Error
                   THEN [running EXCEPT !.errors = Append(bm.errors, c.Name)]
                   ELSE [running EXCEPT !.report = Append(bm.report,
                            [Type |-> c.SearchType, Case |-> c.Name,
                             Limit |-> LimitStr(c, bm.count), Rows |-> res.RowsFound,
                             Description |-> c.Desc])]
    /\ UNCHANGED <<table, nextId, nextUuid, ld, rq, walk, calc, sd>>

\* w.Flush(): the report is written
BenchReport ==
    /\ bm.pc = "matrix"
    /\ bm.next > Len(bm.cases)
    /\ bm' = [bm EXCEPT !.pc = "done", !.phases = Append(bm.phases, "Report")]
    /\ UNCHANGED <<table, nextId, nextUuid, ld, rq, walk, calc, sd>>

---------------------------------------------------------------------------
(* Specification of the loader loop: one load of any totalCount, on an     *)
(* empty table or on the table an earlier load of 1000 left                *)

Noon == At(2024, 6, 15, 12, 0, 0, 0)

LoginDoc == Doc("object", "small", <<"u", "s", "e", "r", "_", "l", "o", "g", "i", "n">>)

EarlierLoad == <<Group(1, batchSize, 1, "example.com", "user_login", LoginDoc, Noon)>>

InitLoader ==
    /\ table \in {<<>>, EarlierLoad}
    /\ nextId = RowCount(table) + 1
    /\ nextUuid = Len(table) + 1
    /\ ld = IdleLoad
    /\ rq = IdleRequest
    /\ walk = NoWalk
    /\ calc = NoCalc
    /\ sd = IdleSeed
    /\ bm = IdleBench

LoaderStart ==
    \E n \in 0..MaxCount : ld.loads = 0 /\ LoadStart(n, "small")

LoaderBatch == InitializeBatch({"test.org"}, {"page_view"}, {Noon})

NextLoader == LoaderStart \/ LoaderBatch \/ InitializeFinish

SpecLoader == InitLoader /\ [][NextLoader]_vars

CeilDiv(a, b) == IF a % b = 0 THEN a \div b ELSE (a \div b) + 1

\* C1: when no batch of a load fails, the sizes of the submitted batches sum
\* to totalCount and exactly ceil(totalCount / 1000) batches are submitted.
C1_BatchSumAndCount ==
    (ld.pc = "done" /\ ld.status = 200) =>
        /\ SumSeq(ld.submitted) = ld.RecordCount
        /\ Len(ld.submitted) = CeilDiv(ld.RecordCount, 1000)

C1_Witness ==
    /\ ld.pc = "done" /\ ld.status = 200
    /\ ld.RecordCount = 1500
    /\ ld.submitted = <<1000, 500>>

\* C2: in a load with totalCount > 0 every batch but the last has 1000
\* records, the last has totalCount mod 1000 records, or 1000 when 1000
\* divides totalCount, and no submitted batch is empty or larger than 1000.
C2_BatchSizes ==
    ld.RecordCount > 0 =>
        \A i \in 1..Len(ld.submitted) :
            /\ ld.submitted[i] >= 1 /\ ld.submitted[i] <= 1000
            /\ i < CeilDiv(ld.RecordCount, 1000) => ld.submitted[i] = 1000
            /\ i = CeilDiv(ld.RecordCount, 1000) =>
                  ld.submitted[i] = (IF ld.RecordCount % 1000 # 0
                                     THEN ld.RecordCount % 1000 ELSE 1000)

C2_Witness ==
    /\ ld.pc = "done" /\ ld.status = 200
    /\ ld.RecordCount = 2000
    /\ ld.submitted = <<1000, 1000>>

\* the rows of the table that the current load added
AddedByLoad == SubSeq(table, Len(ld.before) + 1, Len(table))

\* the state of a load one of whose batches storage rejected
C3_FailureState ==
    ld.failedBatch >= 0 =>
        /\ ld.pc = "done" /\ ld.status = 500
        /\ Len(ld.submitted) = ld.failedBatch + 1
        /\ Len(ld.returned) = ld.failedBatch
        /\ SubSeq(table, 1, Len(ld.before)) = ld.before
        /\ RowCount(AddedByLoad) = SumSeq(ld.returned)

\* C3: when storage rejects batch k, the load is over with an error outcome,
\* batch k is the last batch submitted (no retry, no later batch), the rows of
\* every batch accepted before k are in the table, and from then on no step
\* submits a batch or changes the table.
C3_AbortOnBatchFailure ==
    /\ []C3_FailureState
    /\ [][ld.failedBatch >= 0 => (ld'.submitted = ld.submitted /\ table' = table)]_vars

C3_Witness ==
    /\ ld.failedBatch = 1
    /\ ld.RecordCount = 1500
    /\ RowCount(AddedByLoad) = 1000
    /\ ld.before # <<>>

\* C4: the inserted count a completed load reports is the sum of the row
\* counts storage returned for its batches, not the requested totalCount.
C4_ReportsAcceptedRows ==
    (ld.pc = "done" /\ ld.status = 200) =>
        /\ ld.record_count = SumSeq(ld.returned)
        /\ ld.record_count = RowCount(AddedByLoad)

C4_Witness ==
    /\ ld.pc = "done" /\ ld.status = 200
    /\ ld.RecordCount = 2000
    /\ ld.returned = <<999, 1000>>
    /\ ld.record_count = 1999

---------------------------------------------------------------------------
(* Specification of paging: single rows are inserted, the table is         *)
(* truncated, and clients ask both handlers for pages                      *)

Morning == At(2024, 6, 15, 9, 30, 0, 0)

LogTerm == <<"l", "o", "g">>

InitQuery ==
    /\ table = <<>>
    /\ nextId = 1
    /\ nextUuid = 1
    /\ ld = IdleLoad
    /\ rq = IdleRequest
    /\ walk = NoWalk
    /\ calc = NoCalc
    /\ sd = IdleSeed
    /\ bm = IdleBench

PagingQueries ==
    {Query(NilParam(NoUuidStr), domain, NilParam(JunkStr), NilParam(JunkStr),
           NilParam(<<>>), TextParam(LogTerm), page, limit) :
        domain \in {NilParam(""), TextParam("example.com")},
        page \in {NoArg, IntArg(2), IntArg(3)},
        limit \in {IntArg(1), IntArg(2)}}

\* the table changes between requests only
PagingInsert ==
    /\ rq.pc = "idle"
    /\ \E attr \in {<<"example.com", Noon>>, <<"example.com", Morning>>,
                     <<"test.org", Noon>>} :
          CreateLog(1, attr[1], "user_login", LoginDoc, attr[2])

PagingTruncate == rq.pc = "idle" /\ TruncateDatabase

PagingGetLogs == \E raw \in PagingQueries : GetLogsCount(raw)

PagingSearch == \E raw \in PagingQueries : SearchLogsPartialCount(raw)

NextPaging ==
    \/ PagingInsert
    \/ PagingTruncate
    \/ PagingGetLogs
    \/ GetLogsFetch
    \/ PagingSearch
    \/ SearchLogsPartialFetch
    \/ TakePage

SpecPaging == InitQuery /\ [][NextPaging]_vars

\* the rows of tbl that the walked query matches, as a response shows them
WalkMatching ==
    {ResponseRow(r) : r \in {x \in Rows(walk.tbl) :
        Matches(ModeOf(walk.handler), x, ParamsOf(walk.handler, LogFilter(walk.raw)))}}

\* C5: with the table unchanged, the pages 1..totalPages of one query put
\* together hold exactly total records, every matching record exactly once,
\* in non-increasing created_at order, also when records share a created_at.
C5_PaginationLaw ==
    (walk.active /\ walk.next > walk.total_pages) =>
        /\ Len(walk.acc) = walk.total
        /\ \A i, j \in 1..Len(walk.acc) : i # j => walk.acc[i].id # walk.acc[j].id
        /\ {walk.acc[i] : i \in 1..Len(walk.acc)} = WalkMatching
        /\ \A i, j \in 1..Len(walk.acc) :
              i < j => walk.acc[i].created_at >= walk.acc[j].created_at

\* C6: the count query and the fetch query of one request get the same filter
\* values, and with the table unchanged a fetch with offset 0 and limit =
\* count returns count records.
C6_CountMatchesList ==
    rq.fetchArgs # <<>> =>
        /\ rq.fetchArgs = rq.countArgs
        /\ (rq.fetched /\ rq.unchanged /\ rq.offset = 0 /\ rq.limit = rq.total)
              => Len(rq.rows) = rq.total

C6_Witness ==
    /\ rq.pc = "done" /\ rq.status = 200 /\ rq.handler = "GetLogs"
    /\ rq.unchanged /\ rq.offset = 0 /\ rq.limit = 2
    /\ rq.total = 2 /\ Len(rq.data) = 2
    /\ RowCount(rq.tbl) = 3
    /\ rq.countArgs[1].Domain.Valid

---------------------------------------------------------------------------
(* Specification of the date filters: rows around the ends of 2024-06-15   *)

June15 == DateStr(2024, 6, 15)

EveBefore == At(2024, 6, 14, 23, 59, 59, TicksPerSecond - 1)
DayStart == At(2024, 6, 15, 0, 0, 0, 0)
LastSecond == At(2024, 6, 15, 23, 59, 59, 0)
LastInstant == At(2024, 6, 15, 23, 59, 59, TicksPerSecond - 1)
NextDay == At(2024, 6, 16, 0, 0, 0, 0)

DateQueries ==
    {Query(NilParam(NoUuidStr), NilParam(""), from, to,
           NilParam(<<>>), TextParam(LogTerm), NoArg, NoArg) :
        from \in {NilParam(JunkStr), TextParam(June15)},
        to \in {NilParam(JunkStr), EmptyParam(JunkStr), TextParam(JunkStr),
                TextParam(DateStr(2024, 6, 31)), TextParam(June15)}}

DatesInsert ==
    /\ rq.pc = "idle"
    /\ \E at \in {EveBefore, DayStart, LastSecond, LastInstant, NextDay} :
          CreateLog(1, "example.com", "user_login", LoginDoc, at)

DatesTruncate == rq.pc = "idle" /\ TruncateDatabase

DatesGetLogs == \E raw \in DateQueries : GetLogsCount(raw)

DatesSearch == \E raw \in DateQueries : SearchLogsPartialCount(raw)

NextDates ==
    \/ DatesInsert
    \/ DatesTruncate
    \/ DatesGetLogs
    \/ GetLogsFetch
    \/ DatesSearch
    \/ SearchLogsPartialFetch
    \/ RequestReturn

SpecDates == InitQuery /\ [][NextDates]_vars

\* a first page that has room for every row of the table
WholeAnswer ==
    /\ rq.pc = "done" /\ rq.status = 200 /\ rq.unchanged
    /\ rq.offset = 0 /\ rq.limit >= RowCount(rq.tbl)

InData(r) == \E i \in 1..Len(rq.data) : rq.data[i] = ResponseRow(r)

\* the instant hh:mm:ss of the day a date text names
OnDay(date, hh, mm, ss) == At(date.y, date.m, date.d, hh, mm, ss, 0)

\* C7: for an upper bound given as the date D the bound used is D 23:59:59,
\* compared with <=: with created_at_to = 2024-06-15 a record of
\* 2024-06-15T23:59:59 is matched and one of 2024-06-16T00:00:00 is not.
C7_DateRangeLaw ==
    (WholeAnswer /\ Given(rq.raw.created_at_to) /\ ParseDate(rq.raw.created_at_to.s).ok) =>
        LET bound == OnDay(rq.raw.created_at_to.s, 23, 59, 59)
            from == rq.fetchArgs[1].CreatedAtFrom
        IN  /\ rq.fetchArgs[1].CreatedAtTo = Some(bound)
            /\ rq.countArgs[1].CreatedAtTo = Some(bound)
            /\ \A r \in Rows(rq.tbl) :
                  InData(r) <=> (/\ r.created_at <= bound
                                 /\ (from.Valid => r.created_at >= from.v))
            /\ rq.raw.created_at_to.s = June15 =>
                  \A r \in Rows(rq.tbl) :
                     /\ r.created_at = At(2024, 6, 15, 23, 59, 59, 0) => InData(r)
                     /\ r.created_at = At(2024, 6, 16, 0, 0, 0, 0) => ~InData(r)

C7_Witness ==
    /\ WholeAnswer
    /\ rq.raw.created_at_to = TextParam(June15)
    /\ rq.raw.created_at.kind = "nil"
    /\ \E r \in Rows(rq.tbl) : r.created_at = LastSecond /\ InData(r)
    /\ \E r \in Rows(rq.tbl) : r.created_at = NextDay /\ ~InData(r)

\* C8: when both bounds are the same date D, every record whose created_at
\* lies within day D, from D 00:00:00 up to but not including (D+1) 00:00:00
\* at any sub-second instant, is matched.
C8_SingleDayRange ==
    (/\ WholeAnswer
     /\ Given(rq.raw.created_at) /\ ParseDate(rq.raw.created_at.s).ok
     /\ rq.raw.created_at_to = rq.raw.created_at) =>
        \A r \in Rows(rq.tbl) :
            (/\ r.created_at >= OnDay(rq.raw.created_at.s, 0, 0, 0)
             /\ r.created_at < OnDay(rq.raw.created_at.s, 0, 0, 0) + TicksPerDay)
                => InData(r)

---------------------------------------------------------------------------
(* Specification of the user_id filter: rows of two users                  *)

UserQueries ==
    {Query(user_id, NilParam(""), NilParam(JunkStr), NilParam(JunkStr),
           NilParam(<<>>), TextParam(LogTerm), NoArg, limit) :
        user_id \in {NilParam(NoUuidStr), EmptyParam(NoUuidStr), TextParam(NoUuidStr),
                     TextParam(UuidStr("canonical", 1)), TextParam(UuidStr("urn", 1)),
                     TextParam(UuidStr("hex", 3))},
        limit \in {NoArg, IntArg(1)}}

UsersInsert ==
    /\ rq.pc = "idle"
    /\ \E attr \in {<<1, Noon>>, <<2, Noon>>, <<1, Morning>>} :
          CreateLog(attr[1], "example.com", "user_login", LoginDoc, attr[2])

UsersTruncate == rq.pc = "idle" /\ TruncateDatabase

UsersGetLogs == \E raw \in UserQueries : GetLogsCount(raw)

UsersSearch == \E raw \in UserQueries : SearchLogsPartialCount(raw)

NextUsers ==
    \/ UsersInsert
    \/ UsersTruncate
    \/ UsersGetLogs
    \/ GetLogsFetch
    \/ UsersSearch
    \/ SearchLogsPartialFetch
    \/ RequestReturn

SpecUsers == InitQuery /\ [][NextUsers]_vars

\* the parameters of the request in hand had it come without user_id
WithoutUserID ==
    ParamsOf(rq.handler, LogFilter([rq.raw EXCEPT !.user_id = NilParam(NoUuidStr)]))

\* C9: a request whose user_id is no valid identifier is not rejected, and it
\* gets the total and the page of the same request without user_id.
C9_InvalidUserIDIgnored ==
    (/\ rq.pc = "done"
     /\ Given(rq.raw.user_id) /\ ~ParseUUID(rq.raw.user_id.s).ok) =>
        /\ rq.status # 400
        /\ rq.countArgs = <<WithoutUserID>>
        /\ rq.status = 200 =>
              /\ rq.fetchArgs = <<WithoutUserID>>
              /\ rq.resp_total = CountRows(ModeOf(rq.handler), rq.tbl, WithoutUserID)
              /\ rq.unchanged =>
                    rq.rows \in ListRows(ModeOf(rq.handler), rq.tbl, WithoutUserID,
                                         rq.limit, rq.offset)
              /\ rq.data = ResponseData(rq.rows)

C9_Witness ==
    /\ rq.pc = "done" /\ rq.status = 200 /\ rq.unchanged
    /\ rq.raw.user_id = TextParam(NoUuidStr)
    /\ rq.resp_total = 2
    /\ {rq.data[i].user_id : i \in 1..Len(rq.data)} = {1, 2}

---------------------------------------------------------------------------
(* Specification of POST /initialize: requests in and out of the enums, on *)
(* an empty table or on the table an earlier load of 1000 left             *)

InitializeRequests ==
    [record_count : {0, 1, 999, 1000, 1001, 5000},
     content_size : {"", "small", "large", "huge", "SMALL"}]

InitializeRequest == \E raw \in InitializeRequests : InitializeData(raw)

NextInitialize ==
    \/ InitializeRequest
    \/ LoaderBatch
    \/ InitializeFinish
    \/ InitializeReturn

SpecInitialize == InitLoader /\ [][NextInitialize]_vars

OutOfEnum(raw) ==
    \/ raw.record_count \notin {1000, 10000, 100000, 1000000, 10000000}
    \/ raw.content_size \notin {"small", "medium", "large"}

\* C10: Initialize with recordCount or contentSize outside its enum ends in a
\* client error, submits no batch and leaves the table unchanged.
C10_OutOfEnumRejected ==
    (ld.pc = "done" /\ OutOfEnum(ld.raw)) =>
        /\ ld.status = 400
        /\ ld.submitted = <<>>
        /\ table = ld.before
        /\ nextId = RowCount(table) + 1

C10_Witness ==
    /\ ld.pc = "done" /\ ld.status = 400
    /\ ld.raw = [record_count |-> 999, content_size |-> "small"]
    /\ ld.loads = 2
    /\ RowCount(table) = 2000

---------------------------------------------------------------------------
(* Specification of the filters: rows that tell the five filters apart,    *)
(* one of them with a content that is no JSON object                       *)

June16 == DateStr(2024, 6, 16)

NoonAfter == At(2024, 6, 16, 12, 0, 0, 0)

ViewsTerm == <<"v", "i", "e", "w", "s">>

ViewsDoc == GenerateSampleContent("small", "page_view")

\* a JSON array ["view log"]: jsonb takes it, the map of the response does not
BareList == Doc("array", "small", <<"v", "i", "e", "w", " ", "l", "o", "g">>)

SearchRows ==
    {<<1, "example.com", LoginDoc, Noon>>, <<2, "test.org", ViewsDoc, NoonAfter>>,
     <<1, "example.com", BareList, NoonAfter>>, <<2, "example.com", ViewsDoc, Noon>>}

SearchQueries ==
    {Query(user_id, domain, dates[1], dates[2], content_like, search_term, NoArg, NoArg) :
        user_id \in {NilParam(NoUuidStr), TextParam(UuidStr("canonical", 1))},
        domain \in {NilParam(""), TextParam("example.com")},
        dates \in {<<NilParam(JunkStr), NilParam(JunkStr)>>,
                   <<TextParam(June16), NilParam(JunkStr)>>,
                   <<NilParam(JunkStr), TextParam(June15)>>},
        content_like \in {NilParam(<<>>), TextParam(ViewsTerm)},
        search_term \in {NilParam(<<>>), EmptyParam(<<>>), TextParam(LogTerm)}}

SearchInsert ==
    /\ rq.pc = "idle"
    /\ \E row \in SearchRows : CreateLog(row[1], row[2], "user_login", row[3], row[4])

SearchTruncate == rq.pc = "idle" /\ TruncateDatabase

SearchGetLogs == \E raw \in SearchQueries : GetLogsCount(raw)

SearchPartial == \E raw \in SearchQueries : SearchLogsPartialCount(raw)

NextSearch ==
    \/ SearchInsert
    \/ SearchTruncate
    \/ SearchGetLogs
    \/ GetLogsFetch
    \/ SearchPartial
    \/ SearchLogsPartialFetch
    \/ RequestReturn

SpecSearch == InitQuery /\ [][NextSearch]_vars

\* C11: SearchPartial with a missing or empty search term ends in a client
\* error before any count or fetch query is issued.
C11_SearchTermRequired ==
    (/\ rq.pc \in {"counted", "done"} /\ rq.handler = "SearchLogsPartial"
     /\ rq.raw.search_term.kind \in {"nil", "empty"}) =>
        /\ rq.pc = "done" /\ rq.status = 400
        /\ rq.countArgs = <<>> /\ rq.fetchArgs = <<>>
        /\ ~rq.fetched

C11_Witness ==
    /\ rq.pc = "done" /\ rq.status = 400 /\ rq.handler = "SearchLogsPartial"
    /\ rq.raw.search_term = EmptyParam(<<>>)
    /\ rq.raw.content_like = TextParam(ViewsTerm)
    /\ RowCount(rq.tbl) = 2

\* the filters handed to storage that a row satisfies, one by one
Satisfies(r, h, p) ==
    /\ p.UserID.Valid => r.user_id = p.UserID.v
    /\ p.Domain.Valid => r.domain = p.Domain.v
    /\ p.CreatedAtFrom.Valid => r.created_at >= p.CreatedAtFrom.v
    /\ p.CreatedAtTo.Valid => r.created_at <= p.CreatedAtTo.v
    /\ IF h = "SearchLogsPartial"
       THEN ILike(r.content.text, p.SearchTerm.v)
       ELSE p.ContentSearch.Valid => FtsMatch(r.content.text, p.ContentSearch.v)

Absent(x) == x.kind \in {"nil", "empty"}

\* C12: a record is counted and listed if and only if it satisfies every
\* filter that is present; an absent filter excludes no record, so the empty
\* filter matches every record of the table.
C12_PredicateComposition ==
    (rq.pc = "done" /\ rq.status = 200) =>
        LET p == rq.countArgs[1]
            h == rq.handler
        IN  /\ Absent(rq.raw.user_id) => ~p.UserID.Valid
            /\ Absent(rq.raw.domain) => ~p.Domain.Valid
            /\ Absent(rq.raw.created_at) => ~p.CreatedAtFrom.Valid
            /\ Absent(rq.raw.created_at_to) => ~p.CreatedAtTo.Valid
            /\ (h = "GetLogs" /\ Absent(rq.raw.content_like)) => ~p.ContentSearch.Valid
            /\ rq.resp_total = Cardinality({r \in Rows(rq.tbl) : Satisfies(r, h, p)})
            /\ WholeAnswer =>
                  \A r \in Rows(rq.tbl) : InData(r) <=> Satisfies(r, h, p)
            /\ (/\ h = "GetLogs"
                /\ Absent(rq.raw.user_id) /\ Absent(rq.raw.domain)
                /\ Absent(rq.raw.created_at) /\ Absent(rq.raw.created_at_to)
                /\ Absent(rq.raw.content_like)) =>
                  rq.resp_total = RowCount(rq.tbl)

C12_Witness ==
    /\ WholeAnswer /\ rq.handler = "GetLogs"
    /\ Given(rq.raw.user_id) /\ Given(rq.raw.domain) /\ Given(rq.raw.created_at)
    /\ Given(rq.raw.content_like)
    /\ RowCount(rq.tbl) = 3
    /\ rq.resp_total = 1 /\ Len(rq.data) = 1

\* the request in hand without the search parameter of the other handler
OwnSearchOnly ==
    IF rq.handler = "SearchLogsPartial"
    THEN [rq.raw EXCEPT !.content_like = NilParam(<<>>)]
    ELSE [rq.raw EXCEPT !.search_term = NilParam(<<>>)]

NoOtherFilter ==
    /\ Absent(rq.raw.user_id) /\ Absent(rq.raw.domain)
    /\ Absent(rq.raw.created_at) /\ Absent(rq.raw.created_at_to)

\* C13: no query applies both the full-text and the partial predicate: GetLogs
\* applies only content_like and SearchLogsPartial only search_term, also when
\* one request carries both parameters.
C13_OneSearchMode ==
    rq.countArgs # <<>> =>
        LET p == rq.countArgs[1]
        IN  /\ rq.countArgs = <<ParamsOf(rq.handler, LogFilter(OwnSearchOnly))>>
            /\ rq.fetchArgs # <<>> => rq.fetchArgs = rq.countArgs
            /\ IF rq.handler = "SearchLogsPartial"
               THEN /\ "ContentSearch" \notin DOMAIN p
                    /\ p.SearchTerm = Some(rq.raw.search_term.s)
               ELSE /\ "SearchTerm" \notin DOMAIN p
                    /\ p.ContentSearch = IF Given(rq.raw.content_like)
                                         THEN Some(rq.raw.content_like.s) ELSE Null(<<>>)
            /\ (WholeAnswer /\ NoOtherFilter) =>
                  \A r \in Rows(rq.tbl) :
                     InData(r) <=>
                        IF rq.handler = "SearchLogsPartial"
                        THEN ILike(r.content.text, rq.raw.search_term.s)
                        ELSE (Given(rq.raw.content_like) =>
                                 FtsMatch(r.content.text, rq.raw.content_like.s))

C13_Witness ==
    /\ WholeAnswer /\ rq.handler = "GetLogs" /\ NoOtherFilter
    /\ rq.raw.content_like = TextParam(ViewsTerm)
    /\ rq.raw.search_term = TextParam(LogTerm)
    /\ \E r \in Rows(rq.tbl) : r.content = ViewsDoc /\ InData(r)
    /\ \E r \in Rows(rq.tbl) : r.content = LoginDoc /\ ~InData(r)

\* C17: when the content of a fetched record does not parse, the request still
\* succeeds and returns every record of the page; that record's content is
\* the document holding the raw payload under "raw" and nothing else, the
\* other records' contents are as stored.
C17_RawFallback ==
    (rq.pc = "done" /\ rq.fetched /\ LogFilter(rq.raw).Limit # 0) =>
        /\ rq.status = 200
        /\ Len(rq.data) = Len(rq.rows)
        /\ \A i \in 1..Len(rq.rows) :
              /\ rq.data[i].id = rq.rows[i].id
              /\ [rq.data[i] EXCEPT !.content = rq.rows[i].content] = rq.rows[i]
              /\ IF rq.rows[i].content.kind \in {"object", "null"}
                 THEN rq.data[i].content = rq.rows[i].content
                 ELSE /\ rq.data[i].content.kind = "raw"
                      /\ rq.data[i].content.text = rq.rows[i].content.text

C17_Witness ==
    /\ rq.pc = "done" /\ rq.status = 200 /\ rq.unchanged
    /\ Len(rq.data) = 2
    /\ \E i \in 1..2 : rq.rows[i].content = BareList /\ rq.data[i].content.kind = "raw"
    /\ \E i \in 1..2 : rq.rows[i].content = LoginDoc /\ rq.data[i].content = LoginDoc

---------------------------------------------------------------------------
(* Specification of the window: page and limit as a client may send them   *)

\* 2^30: with page 3 the product (page - 1) * limit is 2^31, with page 5 2^32
HugeLimit == 1073741824

WindowQueries ==
    {Query(NilParam(NoUuidStr), NilParam(""), NilParam(JunkStr), NilParam(JunkStr),
           NilParam(<<>>), TextParam(LogTerm), page, limit) :
        page \in {NoArg, BadArg, IntArg(-1), IntArg(0), IntArg(2), IntArg(3), IntArg(5)},
        limit \in {NoArg, BadArg, IntArg(-1), IntArg(0), IntArg(1), IntArg(2),
                   IntArg(HugeLimit)}}

WindowInsert ==
    /\ rq.pc = "idle"
    /\ \E at \in {Morning, Noon} : CreateLog(1, "example.com", "user_login", LoginDoc, at)

WindowTruncate == rq.pc = "idle" /\ TruncateDatabase

WindowGetLogs == \E raw \in WindowQueries : GetLogsCount(raw)

WindowSearch == \E raw \in WindowQueries : SearchLogsPartialCount(raw)

NextWindow ==
    \/ WindowInsert
    \/ WindowTruncate
    \/ WindowGetLogs
    \/ GetLogsFetch
    \/ WindowSearch
    \/ SearchLogsPartialFetch
    \/ RequestReturn

SpecWindow == InitQuery /\ [][NextWindow]_vars

\* C15: for every page >= 1 and limit >= 1 the offset handed to storage is
\* (page - 1) * limit and the limit handed to storage is limit, neither of
\* them negative, also when the product exceeds the signed 32-bit range.
C15_WindowExact ==
    (/\ rq.fetchArgs # <<>>
     /\ LogFilter(rq.raw).Page >= 1 /\ LogFilter(rq.raw).Limit >= 1) =>
        /\ rq.limit = LogFilter(rq.raw).Limit
        /\ rq.limit >= 0
        /\ rq.offset >= 0
        /\ rq.offset % LogFilter(rq.raw).Limit = 0
        /\ rq.offset \div LogFilter(rq.raw).Limit = LogFilter(rq.raw).Page - 1

\* C16: every filter for which a count or fetch query is issued has page >= 1
\* and limit >= 1, and computing total_pages never divides by zero.
C16_WindowValidated ==
    /\ rq.countArgs # <<>> =>
          (LogFilter(rq.raw).Page >= 1 /\ LogFilter(rq.raw).Limit >= 1)
    /\ rq.fetched => LogFilter(rq.raw).Limit # 0

---------------------------------------------------------------------------
(* Specification of the end-to-end scenario (cmd/test_integration): one    *)
(* client that truncates, initializes and lists, one request at a time     *)

ScenarioQueries ==
    {NoQuery} \cup
    {Query(NilParam(NoUuidStr), TextParam(domain), NilParam(JunkStr), NilParam(JunkStr),
           NilParam(<<>>), NilParam(<<>>), NoArg, limit) :
        domain \in getRandomDomain, limit \in {NoArg, IntArg(batchSize)}}

ScenarioTruncate == ld.pc = "idle" /\ rq.pc = "idle" /\ TruncateDatabase

\* the client initializes a table that holds one batch at most
ScenarioInitialize ==
    /\ rq.pc = "idle"
    /\ RowCount(table) <= batchSize
    /\ InitializeData([record_count |-> 1000, content_size |-> "small"])

ScenarioBatch == InitializeBatch(getRandomDomain, {"user_login"}, {Noon})

ScenarioGetLogs ==
    /\ ld.pc \in {"idle", "done"}
    /\ \E raw \in ScenarioQueries : GetLogsCount(raw)

NextScenario ==
    \/ ScenarioTruncate
    \/ ScenarioInitialize
    \/ ScenarioBatch
    \/ InitializeFinish
    \/ InitializeReturn
    \/ ScenarioGetLogs
    \/ GetLogsFetch
    \/ RequestReturn

SpecScenario == InitLoader /\ [][NextScenario]_vars

\* an answered GetLogs request that carried no filter
UnfilteredAnswer ==
    /\ rq.pc = "done" /\ rq.status = 200 /\ rq.handler = "GetLogs"
    /\ NoOtherFilter /\ Absent(rq.raw.content_like)

\* C18, in states: the unfiltered total of an empty table is 0, and after a
\* load that started on the empty table and reported N inserted rows, with
\* no other writer, the unfiltered total is N and the page is not empty.
C18_State ==
    /\ (UnfilteredAnswer /\ rq.tbl = <<>>) => (rq.resp_total = 0 /\ rq.data = <<>>)
    /\ (/\ UnfilteredAnswer /\ rq.unchanged
        /\ ld.pc = "done" /\ ld.status = 200 /\ ld.before = <<>>
        /\ ld.record_count = ld.RecordCount) =>
            /\ rq.resp_total = ld.RecordCount
            /\ Len(rq.data) > 0

\* C18: Truncate leaves the table empty, so that the unfiltered total is 0;
\* after Truncate and a successful Initialize(N, size) with no other writer
\* the list with the empty filter reports total = N and a non-empty page.
C18_TruncateInitializeList ==
    /\ []C18_State
    /\ [][(table' # table /\ nextId' = nextId /\ ld' = ld) => table' = <<>>]_vars

C18_Witness ==
    /\ UnfilteredAnswer /\ rq.unchanged
    /\ ld.pc = "done" /\ ld.status = 200 /\ ld.before = <<>> /\ ld.record_count = 1000
    /\ nextId = 2001
    /\ rq.resp_total = 1000 /\ Len(rq.data) = 50

\* C19: filtering by a domain d returns only records of domain d, counts
\* every record of domain d, and at limit = total the list has total
\* records, also when different batches inserted records of several domains.
C19_DomainFilter ==
    (/\ rq.pc = "done" /\ rq.status = 200 /\ rq.unchanged
     /\ Given(rq.raw.domain) /\ Absent(rq.raw.user_id) /\ Absent(rq.raw.created_at)
     /\ Absent(rq.raw.created_at_to) /\ Absent(rq.raw.content_like)) =>
        /\ \A i \in 1..Len(rq.data) : rq.data[i].domain = rq.raw.domain.s
        /\ rq.resp_total = Cardinality({r \in Rows(rq.tbl) : r.domain = rq.raw.domain.s})
        /\ (rq.offset = 0 /\ rq.limit = rq.resp_total) => Len(rq.data) = rq.resp_total

C19_Witness ==
    /\ rq.pc = "done" /\ rq.status = 200 /\ rq.unchanged
    /\ rq.raw.domain = TextParam("test.org")
    /\ Len(rq.tbl) = 2 /\ rq.tbl[1].domain = "example.com" /\ rq.tbl[2].domain = "test.org"
    /\ rq.limit = 1000 /\ rq.resp_total = 1000 /\ Len(rq.data) = 1000

---------------------------------------------------------------------------
(* Specification of the page count: totalPages as a function of the total  *)
(* the count query returned and of the limit of the request                *)

\* totals: the small ones, 2^31 + 2 and 2^32
PageTotals ==
    {Int64(n) : n \in 0..MaxTotal} \cup {Digits(0, 0, 32768, 2), Digits(0, 1, 0, 0)}

\* limits: the small ones, the default, 2^30, 2^31 - 1, 2^32 + 1, 2^63 - 2^32 + 1,
\* 2^63 - 2^31 - 1 and 2^63 - 1
PageLimits ==
    {Int64(n) : n \in 1..MaxLimit} \cup
    {Int64(DefaultLimit), Int64(HugeLimit), Int64(2147483647), Digits(0, 1, 0, 1),
     Digits(32767, 65535, 0, 1), Digits(32767, 65535, 32767, 65535),
     Digits(32767, 65535, 65535, 65535)}

\* A request for page 1 with limit Limit whose count query returned total:
\* the fetch query is given LIMIT int32(Limit) OFFSET 0 and fails when that is
\* negative; when it succeeds the handler computes totalPages and answers.
ReportPages(total, Limit) ==
    /\ Limit # Zero64
    /\ Int32Of(Limit) >= 0
    /\ calc' = [op |-> "pages", total |-> total, limit |-> Limit,
                total_pages |-> TotalPages64(total, Limit)]
    /\ UNCHANGED <<table, nextId, nextUuid, ld, rq, walk, sd, bm>>

PagesRequest == \E total \in PageTotals, Limit \in PageLimits : ReportPages(total, Limit)

NextPages == PagesRequest

SpecPages == InitQuery /\ [][NextPages]_vars

\* ceil(a / b) of non-negative a and positive b
CeilDiv64(a, b) ==
    LET qr == UDivMod(a, b)
    IN  IF qr[2] = Zero64 THEN qr[1] ELSE Add64(qr[1], One64)

\* C14: for every total >= 0 and limit >= 1 the reported total_pages equals
\* ceil(total / limit), which is 0 when total is 0.
C14_TotalPagesCeil ==
    calc.op = "pages" =>
        /\ calc.total_pages = CeilDiv64(calc.total, calc.limit)
        /\ calc.total = Zero64 => calc.total_pages = Zero64

---------------------------------------------------------------------------
(* Specification of the content generator: one document of each size class *)
(* at a time, each from its own random draws                               *)

Draws == 0..MaxDraw

NoDocuments == [op |-> "documents", doc |-> [size \in {"small", "medium", "large", "huge"} |-> <<>>]]

InitGenerate ==
    /\ table = <<>>
    /\ nextId = 1
    /\ nextUuid = 1
    /\ ld = IdleLoad
    /\ rq = IdleRequest
    /\ walk = NoWalk
    /\ calc = NoDocuments
    /\ sd = IdleSeed
    /\ bm = IdleBench

Generate(size) ==
    /\ \E draw \in Draws :
          calc' = [calc EXCEPT !.doc[size] = GenerateSampleContentMap(size, draw)]
    /\ UNCHANGED <<table, nextId, nextUuid, ld, rq, walk, sd, bm>>

GenerateSmall == Generate("small")
GenerateMedium == Generate("medium")
GenerateLarge == Generate("large")
GenerateOther == Generate("huge")

NextGenerate == GenerateSmall \/ GenerateMedium \/ GenerateLarge \/ GenerateOther

SpecGenerate == InitGenerate /\ [][NextGenerate]_vars

Made(size) == DOMAIN calc.doc[size] # {}

StrictlyContains(A, B) == B \subseteq A /\ A # B

\* C20: whatever the random draws, the field names of a medium document
\* strictly contain those of a small one, and the field names of a large
\* document strictly contain those of a medium one.
C20_FieldSetsNested ==
    /\ (Made("small") /\ Made("medium")) =>
          StrictlyContains(DOMAIN calc.doc["medium"], DOMAIN calc.doc["small"])
    /\ (Made("medium") /\ Made("large")) =>
          StrictlyContains(DOMAIN calc.doc["large"], DOMAIN calc.doc["medium"])
    /\ (Made("small") /\ Made("huge")) =>
          DOMAIN calc.doc["huge"] = DOMAIN calc.doc["small"]

C20_Witness ==
    /\ Cardinality(DOMAIN calc.doc["small"]) = 9
    /\ Cardinality(DOMAIN calc.doc["medium"]) = 55
    /\ Cardinality(DOMAIN calc.doc["large"]) = 905
    /\ calc.doc["small"][Field("status")] # calc.doc["large"][Field("status")]

---------------------------------------------------------------------------
(* The loader loop when every storage call returns and the handler goes on *)
(* running: a step that can be taken is taken                              *)

SpecLoaderFair == SpecLoader /\ WF_vars(LoaderBatch) /\ WF_vars(InitializeFinish)

\* a load is over with the success report, or with the report of the first
\* batch storage rejected
Reported ==
    /\ ld.pc = "done"
    /\ \/ ld.status = 200 /\ ld.failedBatch = -1
       \/ ld.status = 500 /\ ld.failedBatch = Len(ld.returned)

\* C28: every load terminates: for every totalCount the loader reaches the
\* success report or the first-batch-failure report, it submits at most
\* ceil(totalCount / 1000) batches, and each step of the loop either ends the
\* load or moves the batch index up by one.
C28_LoadTerminates ==
    /\ (ld.pc = "loop") ~> Reported
    /\ [](Len(ld.submitted) <= CeilDiv(ld.RecordCount, 1000))
    /\ [][(ld.pc = "loop" /\ ld' # ld) =>
             (ld'.pc = "done" \/ (ld'.pc = "loop" /\ ld'.batch = ld.batch + 1))]_vars

C28_Witness ==
    /\ Reported
    /\ ld.RecordCount = 2001
    /\ Len(ld.submitted) = 3
    /\ ld.status = 200

---------------------------------------------------------------------------
(* Failing queries of one list request, under SpecPaging                   *)

\* C25: if the count query of a list request fails, no fetch query is issued
\* and the outcome is a server error; if the fetch query fails the outcome is
\* a server error with neither data nor total; no error outcome carries any
\* part of a result, and a fetch query is issued only after a count succeeded.
C25_NoPartialResult ==
    /\ []((rq.pc = "done" /\ rq.status # 200) =>
             (rq.data = <<>> /\ rq.resp_total = -1 /\ rq.total_pages = -1))
    /\ [](rq.status = 200 => (rq.fetched /\ rq.countArgs # <<>> /\ rq.fetchArgs # <<>>))
    /\ [][(rq.pc = "idle" /\ rq'.pc = "done") =>
             (rq'.status \in {400, 500} /\ rq'.fetchArgs = <<>> /\ ~rq'.fetched)]_vars
    /\ [][(rq'.fetchArgs # rq.fetchArgs /\ rq'.fetchArgs # <<>>) =>
             (rq.pc = "counted" /\ rq'.pc = "done")]_vars
    /\ [][(rq.pc = "counted" /\ rq'.pc = "done" /\ ~rq'.fetched) => rq'.status = 500]_vars

\* a fetch query failed after the count query found rows
C25_Witness ==
    /\ rq.pc = "done" /\ rq.status = 500
    /\ rq.total > 0
    /\ rq.fetchArgs # <<>> /\ ~rq.fetched
    /\ rq.data = <<>> /\ rq.resp_total = -1

---------------------------------------------------------------------------
(* Specification of the operations side by side: one load, one seeding,   *)
(* logged requests, truncations, and list requests whose two queries the   *)
(* writers may come between                                                *)

SideQueries ==
    {Query(NilParam(NoUuidStr), NilParam(""), NilParam(JunkStr), NilParam(JunkStr),
           NilParam(<<>>), search_term, NoArg, IntArg(1)) :
        search_term \in {NilParam(<<>>), TextParam(LogTerm)}}

SideLoad == ld.loads = 0 /\ LoadStart(batchSize, "small")

SideBatch == InitializeBatch({"test.org"}, {"user_login"}, {Noon})

SideSeed == SeedData(batchSize, "small")

SideSeedBatch == SeedBatch({Morning})

SideLogger == RequestLogger("POST /api/example/:id", LoginDoc, NoonAfter)

SideGetLogs == \E raw \in SideQueries : raw.search_term.kind = "nil" /\ GetLogsCount(raw)

SideSearch == \E raw \in SideQueries : raw.search_term.kind # "nil" /\ SearchLogsPartialCount(raw)

NextSide ==
    \/ SideLoad
    \/ SideBatch
    \/ InitializeFinish
    \/ SideSeed
    \/ SideSeedBatch
    \/ SeedReturn
    \/ SideLogger
    \/ TruncateDatabase
    \/ SideGetLogs
    \/ GetLogsFetch
    \/ SideSearch
    \/ SearchLogsPartialFetch
    \/ RequestReturn

SpecSide == InitQuery /\ [][NextSide]_vars


\* C21: a record in the table never changes and leaves it only when the whole
\* table is emptied; a step that adds records leaves the old ones as they
\* are, gives the new ones new ids, and is a bulk copy (of the loader or of
\* the seeder) or the insert of a single record; the two queries of a list
\* request change nothing.
C21_RecordsImmutable ==
    [][/\ \/ table' = table
          \/ table' = <<>>
          \/ /\ Len(table') > Len(table)
             /\ SubSeq(table', 1, Len(table)) = table
             /\ \A j \in (Len(table) + 1)..Len(table') :
                   table'[j].id >= nextId /\ table'[j].id + table'[j].n <= nextId'
             /\ \/ ld'.submitted # ld.submitted
                \/ sd'.submitted # sd.submitted
                \/ /\ Len(table') = Len(table) + 1
                   /\ table'[Len(table')].n = 1
                   /\ Logged' = Logged + 1
       /\ rq' # rq => table' = table]_vars

\* records of the seeder, of the loader and of the request logger side by
\* side, while a list request is answered
C21_Witness ==
    /\ \E i, j, k \in DOMAIN table :
          /\ i < j /\ j < k
          /\ table[i].domain = "example.com" /\ table[i].n = batchSize
          /\ table[j].domain = "test.org" /\ table[j].n = batchSize
          /\ table[k].domain = "example-api"
    /\ rq.pc = "done" /\ rq.status = 200

\* C26: the total of an answer is the count of the matching records at the
\* moment of the count query, whatever the table is when the page is fetched;
\* only when no write came between the two queries is the page sure to be the
\* window of that many records.
C26_CountThenFetch ==
    (rq.pc = "done" /\ rq.status = 200) =>
        /\ rq.resp_total = CountRows(ModeOf(rq.handler), rq.tbl, rq.countArgs[1])
        /\ rq.unchanged =>
              Len(rq.data) = Min(rq.limit, Max(rq.resp_total - rq.offset, 0))

\* a Truncate between the two queries: a total above 0 with an empty first page
C26_Witness ==
    /\ rq.pc = "done" /\ rq.status = 200
    /\ ~rq.unchanged
    /\ rq.resp_total > 0
    /\ rq.offset = 0 /\ rq.limit > 0
    /\ rq.data = <<>>
    /\ table = <<>>

---------------------------------------------------------------------------
(* Specification of reads during a load: the loader is the only writer and *)
(* storage takes each batch whole or not at all                            *)

ReadQuery ==
    Query(NilParam(NoUuidStr), NilParam(""), NilParam(JunkStr), NilParam(JunkStr),
          NilParam(<<>>), NilParam(<<>>), NoArg, IntArg(1))

ReadLoad == \E n \in {1, batchSize, batchSize + 500, MaxCount} : ld.loads = 0 /\ LoadStart(n, "small")

\* a batch is rejected, or taken whole
ReadBatch ==
    /\ InitializeBatch({"test.org"}, {"page_view"}, {Noon})
    /\ nextId' \in {nextId, nextId + CurrentBatchSize(ld.RecordCount, ld.batch)}

ReadGetLogs == GetLogsCount(ReadQuery)

NextRead ==
    \/ ReadLoad
    \/ ReadBatch
    \/ InitializeFinish
    \/ ReadGetLogs
    \/ GetLogsFetch
    \/ RequestReturn

SpecRead == InitLoader /\ [][NextRead]_vars

\* the total before the load
PreLoadTotal == IF ld.pc = "idle" THEN RowCount(table) ELSE RowCount(ld.before)

\* the sums of the sizes of the first k batches, for every k accepted so far
PrefixSums == {SumSeq(SubSeq(ld.submitted, 1, k)) : k \in 0..Len(ld.returned)}

\* C27: every unfiltered total a read observes before, during or after a load
\* is the total before the load plus the sizes of a prefix of its batches.
C27_PrefixTotals ==
    rq.pc \in {"counted", "done"} /\ rq.countArgs # <<>> /\ (rq.pc = "done" => rq.status = 200) =>
        \E sum \in PrefixSums : rq.total = PreLoadTotal + sum

\* a count answered in the middle of the batch loop, strictly between the
\* total before the load and the total after it
C27_Witness ==
    /\ ld.pc = "loop"
    /\ rq.pc = "counted"
    /\ PreLoadTotal = batchSize
    /\ rq.total > PreLoadTotal
    /\ rq.total < PreLoadTotal + ld.RecordCount

---------------------------------------------------------------------------
(* Specification of the two batch loops on one dataset size: the loader is *)
(* given any totalCount, then seedData is run with that DatasetSize;       *)
(* storage takes a batch whole or rejects it                               *)

PairLoad == \E n \in 0..MaxCount : ld.loads = 0 /\ LoadStart(n, "small")

PairBatch ==
    /\ InitializeBatch({"test.org"}, {"page_view"}, {Noon})
    /\ nextId' \in {nextId, nextId + CurrentBatchSize(ld.RecordCount, ld.batch)}

PairSeed == ld.pc = "done" /\ SeedData(ld.RecordCount, "small")

PairSeedBatch ==
    /\ SeedBatch({Noon})
    /\ nextId' \in {nextId, nextId + SeedBatchSize(sd.DatasetSize, sd.i)}

NextPair ==
    \/ PairLoad
    \/ PairBatch
    \/ InitializeFinish
    \/ PairSeed
    \/ PairSeedBatch
    \/ SeedReturn

SpecPair == InitQuery /\ [][NextPair]_vars

\* C29: on the same dataset size the seeder and the loader submit the same
\* sequence of batch sizes: at every moment the batches the two have
\* submitted so far agree one by one, when both got through they are the same
\* sequence, and no submitted batch is empty.
C29_SameBatchSizes ==
    /\ \A i \in DOMAIN ld.submitted : ld.submitted[i] > 0
    /\ \A i \in DOMAIN sd.submitted : sd.submitted[i] > 0
    /\ sd.pc # "idle" =>
          /\ sd.DatasetSize = ld.RecordCount
          /\ \A i \in 1..Min(Len(ld.submitted), Len(sd.submitted)) :
                sd.submitted[i] = ld.submitted[i]
          /\ (sd.pc = "done" /\ ~sd.err /\ ld.status = 200) => sd.submitted = ld.submitted

C29_Witness ==
    /\ ld.pc = "done" /\ ld.status = 200
    /\ sd.pc = "done" /\ ~sd.err
    /\ sd.DatasetSize = 2001
    /\ sd.submitted = <<1000, 1000, 1>>
    /\ ld.submitted = <<1000, 1000, 1>>

---------------------------------------------------------------------------
(* Specification of the search benchmark: one run on a table nothing else  *)
(* writes to                                                               *)

BenchGroup(id, n, text, at) ==
    Group(id, n, id, "example.com", "login", Doc("object", "small", text), at)

\* the tables a run finds: none, 100 records, records whose newest 1000 can
\* be taken in two ways, words of few letters only, a word of two characters
\* of three bytes, 2000 records, and two words with counts 2 and 3
BenchTables ==
    {<<>>,
     <<BenchGroup(1, 100, <<"u", "s", "e", "r", " ", "l", "o", "g", "i", "n">>, Noon)>>,
     <<BenchGroup(1, batchSize, <<"l", "o", "g", "i", "n", " ", "d", "o", "n", "e">>, Noon),
       BenchGroup(1001, 3, <<"E", "r", "r", "o", "r", "!", " ", "l", "o", "g", "i", "n">>, Noon),
       BenchGroup(1004, 1, <<"t", "i", "m", "e", "o", "u", "t", " ", "E", "r", "r", "o", "r">>, Morning)>>,
     <<BenchGroup(1, 2, <<"a", "t", " ", "o", "k">>, Noon),
       Group(3, 1, 3, "example.com", "login", BareList, Noon)>>,
     <<BenchGroup(1, 2, <<"<ro>", "<gu>", " ", "o", "k">>, Noon)>>,
     <<BenchGroup(1, batchSize, <<"u", "s", "e", "r", " ", "l", "o", "g", "i", "n">>, Noon),
       BenchGroup(1001, batchSize, <<"p", "a", "g", "e", " ", "v", "i", "e", "w", "s">>, Morning)>>,
     <<BenchGroup(1, 2, <<"l", "o", "g", "i", "n", " ", "e", "r", "r", "o", "r">>, Noon),
       BenchGroup(3, 1, <<"(", "e", "r", "r", "o", "r", ")">>, Morning)>>}

InitBench ==
    /\ table \in BenchTables
    /\ nextId = RowCount(table) + 1
    /\ nextUuid = nextId
    /\ ld = IdleLoad
    /\ rq = IdleRequest
    /\ walk = NoWalk
    /\ calc = NoCalc
    /\ sd = IdleSeed
    /\ bm = IdleBench

NextBench ==
    \/ BenchConnect
    \/ BenchCountLogs
    \/ BenchDiscoverTerms
    \/ BenchWarmUp
    \/ BenchRunCase
    \/ BenchReport

SpecBench == InitBench /\ [][NextBench]_vars


Phases == <<"Connect", "CountExisting", "DiscoverTerms", "WarmUp", "ExecuteCaseMatrix", "Report">>

\* the queries of the log that are timed, and those that warm up
TimedQueries == SelectSeq(bm.queries, LAMBDA q : q.timed)
WarmUps == {i \in DOMAIN bm.queries :
               ~bm.queries[i].timed /\ bm.queries[i].q = "ListLogsWithFilters"}

\* C22: the phases of a run come in the order Connect, CountExisting,
\* DiscoverTerms, WarmUp, ExecuteCaseMatrix, Report, none twice, and a run
\* that gets through has them all; one untimed full-text warm-up query is
\* issued, before every timed query; a run whose Connect fails issues no query.
C22_PhaseOrder ==
    /\ Len(bm.phases) <= Len(Phases)
    /\ bm.phases = SubSeq(Phases, 1, Len(bm.phases))
    /\ bm.pc = "done" => bm.phases = Phases
    /\ Cardinality(WarmUps) <= 1
    /\ bm.pc \in {"matrix", "done"} => Cardinality(WarmUps) = 1
    /\ \A i \in DOMAIN bm.queries :
          bm.queries[i].timed => \E j \in WarmUps : j < i
    /\ (bm.pc = "fatal" /\ bm.phases = <<"Connect">>) => bm.queries = <<>>

C22_Witness ==
    /\ bm.pc = "done"
    /\ Len(TimedQueries) = 10
    /\ bm.queries[3] = Issued("ListLogsWithFilters", <<"l", "o", "g", "i", "n">>, 10, FALSE)
    /\ bm.queries[4].timed
    /\ bm.count = 2000

\* the place of a case in the matrix
CaseIndex(name) == CHOOSE k \in DOMAIN bm.cases : bm.cases[k].Name = name

InMatrixOrder(names) ==
    \A i, j \in DOMAIN names : i < j => CaseIndex(names[i]) < CaseIndex(names[j])

\* C23: the ten cases are attempted once each in matrix order; a case whose
\* query fails is logged and gets no report row, the cases after it are still
\* executed, and the report has exactly one row for every case that did not
\* fail.
C23_CaseMatrix ==
    bm.pc \in {"matrix", "done"} =>
        LET done == bm.next - 1
            rows == [i \in DOMAIN bm.report |-> bm.report[i].Case]
            names(q) == {q[i] : i \in DOMAIN q}
        IN  /\ Len(bm.cases) = 10
            /\ {<<bm.cases[k].SearchType, bm.cases[k].Desc>> : k \in DOMAIN bm.cases} =
                  {"FTS", "Partial"} \X {"Random UUID", "Rare term", "Common term, Limit 100",
                                         "Common term, Full Scan", "1-2 chars"}
            /\ Len(TimedQueries) = done
            /\ \A k \in 1..done :
                  /\ TimedQueries[k].term = bm.cases[k].Term
                  /\ TimedQueries[k].limit = bm.cases[k].Limit
                  /\ (TimedQueries[k].q = "ListLogsWithFilters") = (bm.cases[k].SearchType = "FTS")
            /\ Len(rows) + Len(bm.errors) = done
            /\ names(rows) \cap names(bm.errors) = {}
            /\ names(rows) \cup names(bm.errors) = {bm.cases[k].Name : k \in 1..done}
            /\ InMatrixOrder(rows) /\ InMatrixOrder(bm.errors)
            /\ bm.pc = "done" => done = 10

\* the second case failed and the eight after it have their rows
C23_Witness ==
    /\ bm.pc = "done"
    /\ bm.errors = <<"FTS Rare (Few)">>
    /\ Len(bm.report) = 9
    /\ bm.report[9].Case = "Partial Short Input"
    /\ bm.report[2].Rows = 100

\* C24: over a frequency table that is not empty the common term has the
\* largest count and the rare term the smallest, and when some count is in
\* [1, 5) the count of the rare term is; over an empty table the terms are
\* "login" and "error".
C24_TermDiscovery ==
    (bm.pc \in {"discovered", "matrix", "done"} /\ ~bm.failed) =>
        LET wc == bm.wordCounts
        IN  IF DOMAIN wc = {}
            THEN bm.commonTerm = LoginTerm /\ bm.rareTerm = ErrorTerm
            ELSE /\ bm.commonTerm \in DOMAIN wc
                 /\ bm.rareTerm \in DOMAIN wc
                 /\ \A w \in DOMAIN wc : wc[w] <= wc[bm.commonTerm]
                 /\ \A w \in DOMAIN wc : wc[bm.rareTerm] <= wc[w]
                 /\ (\E w \in DOMAIN wc : wc[w] >= 1 /\ wc[w] < 5) =>
                       (wc[bm.rareTerm] >= 1 /\ wc[bm.rareTerm] < 5)

\* the sample of 1000 holds the three records with "Error! login": the counts
\* are login 1000, done 997, error 3
C24_Witness ==
    /\ bm.pc = "discovered" /\ ~bm.failed
    /\ DOMAIN bm.wordCounts = {<<"l", "o", "g", "i", "n">>, <<"d", "o", "n", "e">>, <<"e", "r", "r", "o", "r">>}
    /\ bm.wordCounts[<<"l", "o", "g", "i", "n">>] = 1000
    /\ bm.wordCounts[<<"d", "o", "n", "e">>] = 997
    /\ bm.wordCounts[<<"e", "r", "r", "o", "r">>] = 3
    /\ bm.commonTerm = <<"l", "o", "g", "i", "n">>
    /\ bm.rareTerm = <<"e", "r", "r", "o", "r">>

\* C30: in the report the cap column is "ALL" for exactly the two uncapped
\* cases and the number 100 for the capped ones, for every dataset size.
C30_CapColumn ==
    \A i \in DOMAIN bm.report :
        LET row == bm.report[i]
        IN  IF row.Description = "Common term, Full Scan"
            THEN row.Limit = AllStr
            ELSE row.Limit = Sprintf(100)

====
